---- MODULE Spec2Model ----
(***************************************************************************)
(* Model of pkt_generation/packet_generator.py: the start_generator        *)
(* controller (main_start_generator), its generator drivers                *)
(* (start_pktgen_on_tx_pods.run_for_pod), the receiver launch              *)
(* (start_dpdk_testpmd), the hypervisor samplers, the SIGINT handler of    *)
(* __main__, and the SSH connection pool (SSHConnectionManager).           *)
(*                                                                         *)
(* Environment conventions.  kubectl / tmux are tools outside the          *)
(* repository.  A kill-session that succeeds removes the session and hangs *)
(* up the commands typed into its windows, which ends the generators       *)
(* started there; one that fails raises and changes nothing.  The outcome  *)
(* of a remote sample (socat push) is a free choice of the environment.    *)
(***************************************************************************)
EXTENDS Integers, Sequences, FiniteSets, TLC

\* ---------------------------------------------------------------- bounds
NPairs == 2            \* TX/RX pairs of the run
NThreads == 2          \* threads calling get_connection concurrently
MaxSessions == 3       \* connections made in one behaviour
MaxCores == 5          \* a workload exposes 1..MaxCores allowed cores
MaxSampleCount == 2    \* largest --sample-count override tried
MaxDesc == 8           \* --txd / --rxd values tried: -1..MaxDesc
MaxLines == 7          \* lines of a pulled stat log / CSV file
MaxSamples == 2        \* entries of a series of an archive that is validated
MaxCalls == 2          \* outward calls made by one caller
MaxClock == 3          \* seconds of wall clock followed
MaxCoreId == 10        \* core ids of physcpubind: 0..MaxCoreId
MaxSuffix == 3         \* pods are named tx<k>, rx<k> with k in 0..MaxSuffix
MaxDur == 3            \* duration of a sampling loop followed on its own: 1..MaxDur
MaxLat == 1            \* seconds one sampling call takes: 0..MaxLat
MaxVfs == 2            \* active virtual functions of a NIC: 0..MaxVfs
MaxOverride == 16      \* --sample-count override of a run followed with its clock

\* ------------------------------------------------------ program constants
Grace == 30            \* start_esxi_collector: duration + 30
MinCores == 2          \* "< 2" tests of run_for_pod and start_dpdk_testpmd
CoresPerPort == 2      \* run_for_pod: cores_per_port
BufferPerSample == 2   \* start_dpdk_testpmd, launch_pktgen: buffer_per_sample
RxSlack == 60          \* start_dpdk_testpmd: timeout_duration = ... + 60
TxSlack == 24          \* launch_pktgen: timeout_duration = ... + 24
WarmupTimedOut == 124  \* exit status of timeout(1) when the time ran out

Pods == 1..NPairs
CoreCounts == 1..MaxCores
\* The unique hypervisors behind the run's nodes (one sampler thread each).
Samplers == {"esxi-1"}

\* Optional values of argparse (default=None): <<>> is None, <<n>> is n.
None == <<>>
Some(n) == <<n>>
IsNone(v) == v = <<>>
Val(v) == v[1]

\* (duration, sample_interval) accepted by the __main__ validation:
\* sample_interval >= 1, duration > 0, sample_interval < duration.
Timings == {<<3, 2>>}

\* The options whose value is read at several places of the run.  The
\* options read at one place only (rx_num_core, latency) are drawn where
\* they are read: the state keeps their effect, not their value.
Configs ==
    [ duration        : {2, 3},
      sample_interval : {1, 2},
      sample_count    : {None, Some(0), Some(MaxSampleCount)},
      skip_testpmd    : BOOLEAN,
      skip_copy       : BOOLEAN ]

RxNumCores == {None, Some(1), Some(2)}

ValidConfig(c) ==
    /\ c.sample_interval >= 1
    /\ c.duration > 0
    /\ ~(c.sample_interval >= c.duration)
    /\ <<c.duration, c.sample_interval>> \in Timings

VARIABLES
    cfg,            \* cmd: the parsed options of start_generator
    pc,             \* position of the main thread
    sigint,         \* "no", or where KeyboardInterrupt reached the main thread:
                    \* "window" (receivers started, no generator launched yet)
                    \* or "other"
    rxIdx,          \* start_dpdk_testpmd: index of its for loop
    rx_core_list,   \* start_dpdk_testpmd: appended tuples (by RX pod)
    wpc,            \* run_for_pod: position of each pool worker
    wj,             \* run_for_pod: completed iterations of the sampling loop
    results,        \* pool.map results: "pending", "ok" (tuple), "none" or
                    \* "raised" (an exception)
    tx_core_list,   \* results with the None entries filtered out (by TX pod)
    tx_elapsed,     \* seconds slept by a driver between launch and stop
    colIdx,         \* main_start_generator: index of the collection loop
    hist,           \* per pair: the events performed, in order
    session,        \* the tmux session pktgen_<profile> exists
    pktgen,         \* per TX pod: a generator process started and not ended
    podFiles,       \* per pair: files present inside the TX / RX pods
    artifacts,      \* per pair: files written into the pair directory
    spc,            \* per sampler thread: "none", "running", "done"
    vf_duration,    \* monitor_vf_stats_remote: its duration argument
    pool,           \* ssh_mgr: "none", "open", "closed"
    \* what the run is started with
    opts,           \* args: the options that are only validated
    tx_n,           \* number of pods named tx*
    rx_n,           \* number of pods named rx*
    \* collect_and_parse_rx_stats / collect_and_parse_tx_stats of one pod
    apc,            \* "idle", "rx_log", "tx_rate", "tx_port", "saved", "failed"
    lists,          \* series name -> length of the list parsed so far
    nlines,         \* lines read of the current file
    npz,            \* the archive written: None, or series name -> length
    \* the commands validate_npz and sanity
    tree,           \* the directory results/
    call,           \* args of the last command run
    out,            \* what it computed, and its exit status
    \* the blocking outward calls (subprocess.run, exec_command)
    cstate,         \* per caller: "idle" or "waiting" (inside the call)
    csite,          \* per caller: the call site of its last call
    cleft,          \* per caller: seconds left before the call is cut
                    \* short (None: nothing bounds it)
    ncalls,         \* per caller: calls made
    \* the names of the archives
    clock,          \* datetime.now(), in seconds
    stamp,          \* main_start_generator: None, or [profile, timestamp, expid]
    names,          \* per pair: the file names given to np.savez (None: no
                    \* archive), as [tx, rx]
    npos,           \* << index of the collection loop, side collected next >>
    \* the core assignment of one pod
    core_in,        \* [side, numa_cores, latency, rx_num_core]
    core_out,       \* None, or what run_for_pod / start_dpdk_testpmd made of it
    \* the pods of the cluster and their pairing
    cluster,        \* [tx, rx]: the suffixes k of the pods named tx<k>, rx<k>
    pairing,        \* None, or how the run paired them
    \* the worker nodes of the run and their hypervisors
    nodes,          \* [tx_nodes, rx_nodes, esxi_map]
    monitors,       \* None, or what main_start_generator made of them
    \* one sampling loop followed on its own, with its wall clock
    loop_in,        \* [task, interval, duration]: monitor_vf_stats_remote
                    \* ("sampler") or the loop of run_for_pod ("driver")
    lpc,            \* where the task is
    lnow,           \* seconds since the task started (time.time() - start_time)
    vfs,            \* get_active_vfs: the VF ids
    vfi,            \* index of "for vf in vfs" / j of "for j in range"
    writer,         \* None, or the fieldnames of the csv.DictWriter
    csvf,           \* None (not opened), or the rows of the CSV file
    logged,         \* remote-shell failures printed
    taken,          \* the non-empty samples get_vf_stats returned
    inflight,       \* sampling calls in progress
    lat_max,        \* longest sampling call so far
    \* one run followed with its wall clock
    tl_in,          \* [duration, sample_interval, sample_count]
    tpc,            \* "idle", "rx", "gen", "crashed"
    tnow,           \* seconds since start_dpdk_testpmd was entered
    tidx,           \* index of the loop of start_dpdk_testpmd
    warm,           \* per RX pod: None, or the exit status of its warm-up
    rxl,            \* per RX pod: None, or [at, timeout] of its forwarder
    genl,           \* per TX pod: None, or [at, timeout, stop] of its generator
    tdone,          \* the TX pods whose driver returned
    \* the rows of the TX counter CSVs, by the run that appended them
    pod_csv,        \* per TX pod: the rows of /tmp/*.csv ("old", "new")
    sres,           \* per TX pod: "pending", or what run_for_pod returned
    spulled,        \* per Pair: None, or the rows pulled into its directory
    sidx,           \* index of the collection loop
    stpc,           \* "idle", "drive", "collect", "crashed", "end"
    \* SSHConnectionManager and the threads calling get_connection
    connections,    \* self.connections: host -> session id (0: no entry)
    lock,           \* self.lock: 0 when free, else the thread holding it
    closed,         \* self.closed
    sessions,       \* every paramiko client connected so far:
                    \* [host, active (transport alive), open (close() not
                    \* yet called on it)]
    gpc,            \* per caller: "idle", "check", "connect"
    ghost,          \* per caller: the host argument
    ret             \* per caller: what its last call returned

inputVars == << opts, tx_n, rx_n >>

archVars == << apc, lists, nlines, npz >>

toolVars == << tree, call, out >>

callVars == << cstate, csite, cleft, ncalls >>

nameVars == << clock, stamp, names, npos >>

loopVars == << loop_in, lpc, lnow, vfs, vfi, writer, csvf, logged, taken,
              inflight, lat_max >>

timeVars == << tl_in, tpc, tnow, tidx, warm, rxl, genl, tdone >>

staleVars == << pod_csv, sres, spulled, sidx, stpc >>

sideVars == << loopVars, timeVars, staleVars >>

coreVars == << core_in, core_out, cluster, pairing, nodes, monitors, sideVars >>

runVars == << cfg, pc, sigint, rxIdx, rx_core_list, wpc, wj, results,
              tx_core_list, tx_elapsed, colIdx, hist, session, pktgen,
              podFiles, artifacts, spc, vf_duration, pool >>

\* everything but the connection pool
orchVars == << runVars, inputVars, archVars, toolVars, callVars, nameVars, coreVars >>

poolVars == << connections, lock, closed, sessions, gpc, ghost, ret >>

\* what an action of the controller leaves alone besides its own variables
restVars == << inputVars, poolVars, archVars, toolVars, callVars, nameVars, coreVars >>

\* No file is being parsed.
ArchIdle == apc = "idle" /\ lists = <<>> /\ nlines = 0 /\ npz = None

vars == << orchVars, poolVars >>

\* The experiments and pair directories a results tree may hold.
ExpIds == {"0a1b2c3d", "4e5f6a7b"}
PairDirs == {"tx0-rx0", "tx1-rx1"}

NoCall == [command |-> "none"]
NoOut == [status |-> None]

\* results/<expid>/<tx>-<rx>/ is not there; or it is, without the profile
\* directory.
AbsentDir == [state |-> "absent", files |-> {}, tx_len |-> 0, rx_len |-> 0]
StubDir == [state |-> "stub", files |-> {}, tx_len |-> 0, rx_len |-> 0]

EmptyTree == [x \in ExpIds |-> [aux |-> FALSE, pairs |-> [d \in PairDirs |-> AbsentDir]]]

\* The main thread, a pool worker running run_for_pod, and a thread running
\* monitor_vf_stats_remote.
Callers == {"controller", "driver", "sampler"}

\* No outward call is in progress.
CallIdle ==
    /\ cstate = [c \in Callers |-> "idle"]
    /\ csite = [c \in Callers |-> "none"]
    /\ cleft = [c \in Callers |-> None]
    /\ ncalls = [c \in Callers |-> 0]

\* The worker nodes of the cluster, and the value of esxi_map.get(node) for
\* a node without the label.
Nodes == {"w1", "w2", "w3"}

NoLabel == "none"

\* No sampling loop is followed on its own.
LoopIdle ==
    /\ loop_in = [task |-> "none", interval |-> 1, duration |-> 1]
    /\ lpc = "idle"
    /\ lnow = 0
    /\ vfs = << >>
    /\ vfi = 0
    /\ writer = None
    /\ csvf = None
    /\ logged = 0
    /\ taken = << >>
    /\ inflight = 0
    /\ lat_max = 0

\* No run is followed with its clock.
TimeIdle ==
    /\ tl_in = [duration |-> 3, sample_interval |-> 2, sample_count |-> None]
    /\ tpc = "idle"
    /\ tnow = 0
    /\ tidx = 1
    /\ warm = [p \in Pods |-> None]
    /\ rxl = [p \in Pods |-> None]
    /\ genl = [p \in Pods |-> None]
    /\ tdone = {}

\* No CSV row is followed.
StaleIdle ==
    /\ pod_csv = [p \in Pods |-> {}]
    /\ sres = [p \in Pods |-> "pending"]
    /\ spulled = [p \in Pods |-> None]
    /\ sidx = 1
    /\ stpc = "idle"

SideIdle == LoopIdle /\ TimeIdle /\ StaleIdle

\* No node is looked at on its own.
EsxiIdle ==
    /\ nodes = [tx_nodes |-> << >>, rx_nodes |-> << >>,
                esxi_map |-> [n \in Nodes |-> NoLabel]]
    /\ monitors = None

\* No pod is looked at on its own.
CoreIdle ==
    /\ EsxiIdle /\ SideIdle
    /\ core_in = [side |-> "none", numa_cores |-> << >>, latency |-> FALSE,
                  rx_num_core |-> None]
    /\ core_out = None
    /\ cluster = [tx |-> {}, rx |-> {}]
    /\ pairing = None

\* No archive is named.
NameIdle ==
    /\ CoreIdle
    /\ clock = 0
    /\ stamp = None
    /\ names = [p \in Pods |-> [tx |-> None, rx |-> None]]
    /\ npos = << 1, "tx" >>

\* Neither command is run.
ToolIdle == tree = EmptyTree /\ call = NoCall /\ out = NoOut

Ended == {"done", "exit130", "crashed", "invalid", "mismatch"}

SampleEvents == {"loop_ok", "loop_fail", "last_sample", "final_sample"}

Threads == 1..NThreads
Hosts == {"esxi-1", "esxi-2"}
NoReturn == [id |-> 0, stored |-> FALSE, active |-> FALSE]

PoolInit ==
    /\ connections = [h \in Hosts |-> 0]
    /\ lock = 0
    /\ closed = FALSE
    /\ sessions = <<>>
    /\ gpc = [t \in Threads |-> "idle"]
    /\ ghost = [t \in Threads |-> "esxi-1"]
    /\ ret = [t \in Threads |-> NoReturn]

\* argparse defaults of the options that are only validated
DefaultOpts == [control_port |-> 22022, txd |-> 2048, rxd |-> 2048,
                tx_num_core |-> None, rx_num_core |-> None]

\* The state of the run when main_start_generator is entered.
RunInit ==
    /\ sigint = "no"
    /\ rxIdx = 1
    /\ rx_core_list = <<>>
    /\ wpc = [p \in Pods |-> "idle"]
    /\ wj = [p \in Pods |-> 0]
    /\ results = [p \in Pods |-> "pending"]
    /\ tx_core_list = <<>>
    /\ tx_elapsed = [p \in Pods |-> 0]
    /\ colIdx = 1
    /\ hist = [p \in Pods |-> <<>>]
    \* a session (and generators in its windows) left by an earlier run of
    \* the same profile may still be there
    /\ session \in BOOLEAN
    /\ pktgen \in (IF session THEN [Pods -> BOOLEAN] ELSE {[p \in Pods |-> FALSE]})
    /\ podFiles = [p \in Pods |-> {}]
    /\ artifacts = [p \in Pods |-> {}]
    /\ spc = [s \in Samplers |-> "none"]
    /\ vf_duration = 0
    /\ pool = "none"

\* The options were accepted and the cluster holds NPairs tx and rx pods.
Init ==
    /\ PoolInit
    /\ ArchIdle
    /\ ToolIdle
    /\ CallIdle
    /\ NameIdle
    /\ RunInit
    /\ cfg \in {c \in Configs : ValidConfig(c)}
    /\ opts = DefaultOpts
    /\ tx_n = NPairs /\ rx_n = NPairs
    /\ pc = "resolve"

\* ------------------------------------------------------------- helpers
Append2(h, a, b) == Append(Append(h, a), b)

\* run_for_pod: sample_count = cmd.sample_count or int(duration / interval)
SampleCount(c) ==
    IF ~IsNone(c.sample_count) /\ Val(c.sample_count) # 0
    THEN Val(c.sample_count)
    ELSE c.duration \div c.sample_interval

\* run_for_pod: the core tests that make it return None before the launch
\* ------------------------------------------- core assignment of a pod
CoreIds == 0..MaxCoreId

\* physcpubind of numactl -s, split: core ids in increasing order.
RECURSIVE IncSeq(_)
IncSeq(S) ==
    IF S = {} THEN << >>
    ELSE LET m == CHOOSE x \in S : \A y \in S : x <= y IN << m >> \o IncSeq(S \ {m})
NumaLists == {IncSeq(S) : S \in SUBSET CoreIds}

SeqSet(q) == {q[k] : k \in DOMAIN q}

\* sorted() of core ids held as strings: the order of their decimal text.
Dec(n) == IF n < 10 THEN << n >> ELSE << n \div 10, n % 10 >>
StrLess(a, b) ==
    LET x == Dec(a)
        y == Dec(b) IN
      \/ x[1] < y[1]
      \/ /\ x[1] = y[1]
         /\ \/ Len(x) < Len(y)
            \/ Len(x) = 2 /\ Len(y) = 2 /\ x[2] < y[2]
sorted(q) == SortSeq(q, StrLess)

\* The cores a pktgen core spec names: one core, or all cores between the
\* two ends of "a-b".
RangeCores(q) ==
    IF Len(q) > 1
    THEN LET a == q[1]
             b == q[Len(q)] IN
           IF a <= b THEN a..b ELSE b..a
    ELSE {q[1]}

\* Mutant of min_required: one port whatever the mode.
min_required_OnePort(latency) == CoresPerPort

\* ports_needed * cores_per_port
min_required(latency) == (IF latency THEN 2 ELSE 1) * CoresPerPort

\* run_for_pod up to launch_pktgen: None, an IndexError, or main_core and
\* the port_to_core mapping (per port, the cores named for tx and for rx).
run_for_pod(numa_cores, latency) ==
    IF Len(numa_cores) < MinCores THEN [status |-> "none"]
    ELSE
      LET main_core == numa_cores[1]
          total_usable == Len(numa_cores) - 1 IN
        IF total_usable < min_required(latency) THEN [status |-> "none"]
        ELSE IF Len(numa_cores) = 2
        THEN [status |-> "launch", main_core |-> main_core,
              port_to_core |-> << [tx |-> {numa_cores[2]}, rx |-> {numa_cores[2]}] >>]
        ELSE
          LET half_usable == (Len(numa_cores) - 1) \div 2
              txrx_cores == IF half_usable % 2 # 0 THEN half_usable - 1 ELSE half_usable
              tx_cores == sorted([i \in 1..txrx_cores |-> numa_cores[i + 1]])
              rx_cores == sorted([i \in 1..txrx_cores |-> numa_cores[txrx_cores + 1 + i]])
              half == txrx_cores \div 2 IN
            IF latency
            THEN [status |-> "launch", main_core |-> main_core,
                  port_to_core |->
                    << [tx |-> SeqSet(SubSeq(tx_cores, 1, half)),
                        rx |-> SeqSet(SubSeq(rx_cores, 1, half))],
                       [tx |-> SeqSet(SubSeq(tx_cores, half + 1, txrx_cores)),
                        rx |-> SeqSet(SubSeq(rx_cores, half + 1, txrx_cores))] >>]
            ELSE IF txrx_cores = 0
            THEN \* tx_cores[0] of an empty list
                 [status |-> "raise"]
            ELSE [status |-> "launch", main_core |-> main_core,
                  port_to_core |->
                    << [tx |-> RangeCores(tx_cores), rx |-> RangeCores(rx_cores)] >>]

\* Mutant of rx_core_slice: the slice stops one core early.
rx_core_slice_Short(numa_cores, usable_cores) == SubSeq(numa_cores, 2, usable_cores)

\* numa_cores[1:1 + usable_cores]
rx_core_slice(numa_cores, usable_cores) ==
    SubSeq(numa_cores, 2, IF 1 + usable_cores <= Len(numa_cores)
                          THEN 1 + usable_cores ELSE Len(numa_cores))

\* start_dpdk_testpmd for one pod, up to the warm-up: continue, a
\* RuntimeError, or main_core and rx_cores.
start_dpdk_testpmd(numa_cores, rx_num_core) ==
    LET available_cores == Len(numa_cores) IN
      IF available_cores < 2 THEN [status |-> "continue"]
      ELSE IF ~IsNone(rx_num_core) /\ available_cores < Val(rx_num_core) + 1
      THEN [status |-> "raise"]
      ELSE LET usable_cores == IF IsNone(rx_num_core) THEN available_cores - 1
                               ELSE Val(rx_num_core) IN
             [status |-> "launch", main_core |-> numa_cores[1],
              rx_cores |-> rx_core_slice(numa_cores, usable_cores)]

TxCoresRefused(n, latency) ==
    \/ n < MinCores
    \/ (n - 1) < (IF latency THEN 2 ELSE 1) * CoresPerPort

\* start_pktgen_on_tx_pods: tx_core_list = [r for r in results if r is not None]
FilterOk(res) == SelectSeq([i \in 1..NPairs |-> i], LAMBDA p : res[p] = "ok")

Alive == pc \notin Ended

UnchangedWorkers == UNCHANGED << wpc, wj, results, tx_elapsed >>
UnchangedSamplers == UNCHANGED << spc, vf_duration, pool >>
UnchangedFiles == UNCHANGED << podFiles, artifacts >>

\* --------------------------------------------- main_start_generator
\* get_pods, collect_pods_related, the pod / MAC count checks, expid.
\* Mutant of ResolveTopology: the two counts are not compared.
ResolveTopology_NoCountTest ==
    /\ pc = "resolve"
    /\ pc' = IF tx_n = 0 \/ rx_n = 0 THEN "mismatch" ELSE "esxi"
    /\ UNCHANGED << cfg, sigint, rxIdx, rx_core_list, tx_core_list, colIdx,
                    hist, session, pktgen >>
    /\ UnchangedWorkers /\ UnchangedSamplers /\ UnchangedFiles
    /\ UNCHANGED restVars

\* get_pods, collect_pods_related (which reads MAC, cores and node of every
\* pod), then the count tests of main_start_generator.
ResolveTopology ==
    /\ pc = "resolve"
    /\ pc' = IF tx_n = 0 \/ rx_n = 0   \* get_pods raises RuntimeError
             THEN "mismatch"
             ELSE IF tx_n # rx_n        \* "Pod count mismatch"
             THEN "mismatch"
             ELSE "esxi"
    /\ UNCHANGED << cfg, sigint, rxIdx, rx_core_list, tx_core_list, colIdx,
                    hist, session, pktgen >>
    /\ UnchangedWorkers /\ UnchangedSamplers /\ UnchangedFiles
    /\ UNCHANGED restVars

\* pod_to_esxi_host_mapping (empty map: RuntimeError), then the pool is
\* created and start_esxi_collector starts one daemon thread per hypervisor,
\* each sized to duration + 30.
StartEsxiCollector ==
    /\ pc = "esxi"
    /\ \E mapped \in BOOLEAN, hosts \in SUBSET Samplers :
         IF ~mapped
         THEN /\ pc' = "crashed"
              /\ UnchangedSamplers
         ELSE /\ pc' = "copy"
              /\ pool' = "open"
              /\ spc' = [s \in Samplers |-> IF s \in hosts THEN "running" ELSE "none"]
              /\ vf_duration' = cfg.duration + Grace
    /\ UNCHANGED << cfg, sigint, rxIdx, rx_core_list, tx_core_list, colIdx,
                    hist, session, pktgen >>
    /\ UnchangedWorkers /\ UnchangedFiles
    /\ UNCHANGED restVars

\* copy_flows_to_pods: the tar of the pair's profiles goes to /tmp/ of its
\* TX pod and is unpacked there.
CopyFlows ==
    /\ pc = "copy"
    /\ ~cfg.skip_copy
    /\ podFiles' = [p \in Pods |-> podFiles[p] \cup {"flows.tar"}]
    /\ pc' = "rx"
    /\ UNCHANGED << cfg, sigint, rxIdx, rx_core_list, tx_core_list, colIdx,
                    hist, session, pktgen, artifacts >>
    /\ UnchangedWorkers /\ UnchangedSamplers
    /\ UNCHANGED restVars

\* --skip-copy: copy_flows_to_pods is not called
SkipCopy ==
    /\ pc = "copy"
    /\ cfg.skip_copy
    /\ pc' = "rx"
    /\ UNCHANGED << cfg, sigint, rxIdx, rx_core_list, tx_core_list, colIdx,
                    hist, session, pktgen >>
    /\ UnchangedWorkers /\ UnchangedSamplers /\ UnchangedFiles
    /\ UNCHANGED restVars

\* --skip-testpmd: rx_core_list stays []
SkipTestpmd ==
    /\ pc = "rx"
    /\ cfg.skip_testpmd
    /\ pc' = "cmdline"
    /\ UNCHANGED << cfg, sigint, rxIdx, rx_core_list, tx_core_list, colIdx,
                    hist, session, pktgen >>
    /\ UnchangedWorkers /\ UnchangedSamplers /\ UnchangedFiles
    /\ UNCHANGED restVars

\* start_dpdk_testpmd: one iteration of its loop over the RX pods.
RxPod(p) ==
    /\ pc = "rx"
    /\ ~cfg.skip_testpmd
    /\ p = rxIdx
    /\ \E n \in CoreCounts, rx_num_core \in RxNumCores :
         IF n < MinCores
         THEN \* continue: nothing is appended for this pod
              /\ pc' = IF p = NPairs THEN "cmdline" ELSE "rx"
              /\ rxIdx' = p + 1
              /\ UNCHANGED << rx_core_list, hist, podFiles >>
         ELSE IF ~IsNone(rx_num_core) /\ n < Val(rx_num_core) + 1
         THEN \* raise RuntimeError
              /\ pc' = "crashed"
              /\ UNCHANGED << rxIdx, rx_core_list, hist, podFiles >>
         ELSE \* warm-up, then the rxonly forwarder, then the health check
              \* (pgrep and test -s of the stat log), which only logs
              /\ \E proc_running \in BOOLEAN, log_ok \in BOOLEAN :
                   hist' = [hist EXCEPT ![p] =
                              IF proc_running /\ log_ok
                              THEN Append2(@, "warmup", "rx_start")
                              ELSE Append(Append2(@, "warmup", "rx_start"), "rx_unhealthy")]
              /\ podFiles' = [podFiles EXCEPT ![p] = @ \cup {"warmup.log", "stats.log"}]
              /\ rx_core_list' = Append(rx_core_list, p)
              /\ rxIdx' = p + 1
              /\ pc' = IF p = NPairs THEN "cmdline" ELSE "rx"
    /\ UNCHANGED << cfg, sigint, tx_core_list, colIdx, session, pktgen, artifacts >>
    /\ UnchangedWorkers /\ UnchangedSamplers
    /\ UNCHANGED restVars

CollectCmdline ==
    /\ pc = "cmdline"
    /\ pc' = "move"
    /\ UNCHANGED << cfg, sigint, rxIdx, rx_core_list, tx_core_list, colIdx,
                    hist, session, pktgen >>
    /\ UnchangedWorkers /\ UnchangedSamplers /\ UnchangedFiles
    /\ UNCHANGED restVars

MovePktgenProfiles ==
    /\ pc = "move"
    /\ pc' = "tmux"
    /\ UNCHANGED << cfg, sigint, rxIdx, rx_core_list, tx_core_list, colIdx,
                    hist, session, pktgen >>
    /\ UnchangedWorkers /\ UnchangedSamplers /\ UnchangedFiles
    /\ UNCHANGED restVars

\* start_pktgen_on_tx_pods: prepare_tmux_session, then pool.map hands one
\* run_for_pod to each of the len(tx_pods) workers.
PrepareTmuxAndSpawn ==
    /\ pc = "tmux"
    /\ session' = TRUE
    /\ pktgen' = [p \in Pods |-> FALSE]
    /\ wpc' = [p \in Pods |-> "prepare"]
    /\ pc' = "tx_wait"
    /\ UNCHANGED << cfg, sigint, rxIdx, rx_core_list, tx_core_list, colIdx,
                    hist, wj, results, tx_elapsed >>
    /\ UnchangedSamplers /\ UnchangedFiles
    /\ UNCHANGED restVars

\* ------------------------------ start_pktgen_on_tx_pods.run_for_pod
\* The core tests, then validate_and_cleanup_lua (profile present, and
\* rm -f /tmp/*.csv only when it is).
W_Prepare(p) ==
    /\ wpc[p] = "prepare"
    /\ \E n \in CoreCounts, latency \in BOOLEAN, lua_ok \in BOOLEAN :
         IF TxCoresRefused(n, latency)
         THEN /\ wpc' = [wpc EXCEPT ![p] = "done"]
              /\ results' = [results EXCEPT ![p] = "none"]
              /\ UNCHANGED podFiles
         ELSE IF run_for_pod([k \in 1..n |-> k - 1], latency).status = "raise"
         THEN \* IndexError, kept by the pool for pool.map
              /\ wpc' = [wpc EXCEPT ![p] = "done"]
              /\ results' = [results EXCEPT ![p] = "raised"]
              /\ UNCHANGED podFiles
         ELSE IF ~lua_ok
         THEN /\ wpc' = [wpc EXCEPT ![p] = "done"]
              /\ results' = [results EXCEPT ![p] = "none"]
              /\ UNCHANGED podFiles
         ELSE /\ wpc' = [wpc EXCEPT ![p] = "launch"]
              /\ podFiles' = [podFiles EXCEPT ![p] = @ \ {"tx.csv"}]
              /\ UNCHANGED results
    /\ UNCHANGED << cfg, pc, sigint, rxIdx, rx_core_list, tx_core_list, colIdx,
                    hist, session, pktgen, wj, tx_elapsed, artifacts >>
    /\ UnchangedSamplers
    /\ UNCHANGED restVars

\* launch_pktgen: tmux send-keys into the pod's window of the session.
W_Launch(p) ==
    /\ wpc[p] = "launch"
    /\ pktgen' = [pktgen EXCEPT ![p] = session]
    /\ hist' = [hist EXCEPT ![p] = Append(@, "gen_launch")]
    /\ wpc' = [wpc EXCEPT ![p] = IF SampleCount(cfg) > 0 THEN "loop" ELSE "last"]
    /\ UNCHANGED << cfg, pc, sigint, rxIdx, rx_core_list, tx_core_list, colIdx,
                    session, wj, results, tx_elapsed >>
    /\ UnchangedSamplers /\ UnchangedFiles
    /\ UNCHANGED restVars

\* One iteration of "for j in range(sample_count)": sleep, sample, break on
\* an unsuccessful sample.
W_LoopSample(p) ==
    /\ wpc[p] = "loop"
    /\ wj[p] < SampleCount(cfg)
    /\ tx_elapsed' = [tx_elapsed EXCEPT ![p] = @ + cfg.sample_interval]
    /\ \E success \in BOOLEAN :
         IF success
         THEN /\ hist' = [hist EXCEPT ![p] = Append(@, "loop_ok")]
              /\ podFiles' = [podFiles EXCEPT ![p] = @ \cup {"tx.csv"}]
              /\ wj' = [wj EXCEPT ![p] = @ + 1]
              /\ wpc' = [wpc EXCEPT ![p] =
                           IF wj[p] + 1 < SampleCount(cfg) THEN "loop" ELSE "last"]
         ELSE /\ hist' = [hist EXCEPT ![p] = Append(@, "loop_fail")]
              /\ wpc' = [wpc EXCEPT ![p] = "last"]
              /\ UNCHANGED << podFiles, wj >>
    /\ UNCHANGED << cfg, pc, sigint, rxIdx, rx_core_list, tx_core_list, colIdx,
                    session, pktgen, results, artifacts >>
    /\ UnchangedSamplers
    /\ UNCHANGED restVars

\* "collect last sample": the sample after the loop (its result is unused).
W_LastSample(p) ==
    /\ wpc[p] = "last"
    /\ hist' = [hist EXCEPT ![p] = Append(@, "last_sample")]
    /\ \E success \in BOOLEAN :
         podFiles' = [podFiles EXCEPT ![p] = IF success THEN @ \cup {"tx.csv"} ELSE @]
    /\ wpc' = [wpc EXCEPT ![p] = "stop"]
    /\ UNCHANGED << cfg, pc, sigint, rxIdx, rx_core_list, tx_core_list, colIdx,
                    session, pktgen, wj, results, tx_elapsed, artifacts >>
    /\ UnchangedSamplers
    /\ UNCHANGED restVars

\* send_pktgen_stop: pktgen.stop(0) over the control port (traffic stops,
\* the process stays).
W_Stop(p) ==
    /\ wpc[p] = "stop"
    /\ hist' = [hist EXCEPT ![p] = Append(@, "stop")]
    /\ wpc' = [wpc EXCEPT ![p] = "final"]
    /\ UNCHANGED << cfg, pc, sigint, rxIdx, rx_core_list, tx_core_list, colIdx,
                    session, pktgen, wj, results, tx_elapsed >>
    /\ UnchangedSamplers /\ UnchangedFiles
    /\ UNCHANGED restVars

\* The sample after the stop, then "return main_core, tx_cores, all_core_str".
W_FinalSample(p) ==
    /\ wpc[p] = "final"
    /\ hist' = [hist EXCEPT ![p] = Append(@, "final_sample")]
    /\ \E success \in BOOLEAN :
         podFiles' = [podFiles EXCEPT ![p] = IF success THEN @ \cup {"tx.csv"} ELSE @]
    /\ wpc' = [wpc EXCEPT ![p] = "done"]
    /\ results' = [results EXCEPT ![p] = "ok"]
    /\ UNCHANGED << cfg, pc, sigint, rxIdx, rx_core_list, tx_core_list, colIdx,
                    session, pktgen, wj, tx_elapsed, artifacts >>
    /\ UnchangedSamplers
    /\ UNCHANGED restVars

AllWorkersDone == \A p \in Pods : wpc[p] = "done"

\* The "with ThreadPoolExecutor" block ends when every worker returned;
\* the None results are filtered out.
TxJoin ==
    /\ pc = "tx_wait"
    /\ AllWorkersDone
    /\ IF \E p \in Pods : results[p] = "raised"
       THEN \* list(pool.map(...)) re-raises the exception of the worker
            pc' = "crashed" /\ UNCHANGED tx_core_list
       ELSE pc' = "sleep" /\ tx_core_list' = FilterOk(results)
    /\ UNCHANGED << cfg, sigint, rxIdx, rx_core_list, colIdx, hist, session, pktgen >>
    /\ UnchangedWorkers /\ UnchangedSamplers /\ UnchangedFiles
    /\ UNCHANGED restVars

\* time.sleep(60)
DrainSleep ==
    /\ pc = "sleep"
    /\ pc' = "rx_stop"
    /\ UNCHANGED << cfg, sigint, rxIdx, rx_core_list, tx_core_list, colIdx,
                    hist, session, pktgen >>
    /\ UnchangedWorkers /\ UnchangedSamplers /\ UnchangedFiles
    /\ UNCHANGED restVars

\* stop_testpmd_on_rx_pods: pkill -SIGINT dpdk-testpmd in every RX pod
StopTestpmd ==
    /\ pc = "rx_stop"
    /\ hist' = [p \in Pods |-> Append(hist[p], "rx_stop")]
    /\ pc' = "collect"
    /\ UNCHANGED << cfg, sigint, rxIdx, rx_core_list, tx_core_list, colIdx,
                    session, pktgen >>
    /\ UnchangedWorkers /\ UnchangedSamplers /\ UnchangedFiles
    /\ UNCHANGED restVars

\* What collect_and_parse_tx_stats / collect_and_parse_rx_stats land in the
\* pair directory, given the files present in the pods.
Pulled(files, tx_parsed, rx_parsed) ==
    {"metadata.txt"}
    \cup (IF "tx.csv" \in files THEN {"port_rate_stats.csv", "port_stats.csv"} ELSE {})
    \cup (IF "tx.csv" \in files /\ tx_parsed THEN {"tx.npz"} ELSE {})
    \cup (IF "warmup.log" \in files THEN {"warmup.log"} ELSE {})
    \cup (IF "stats.log" \in files THEN {"stats.log"} ELSE {})
    \cup (IF "stats.log" \in files /\ rx_parsed THEN {"rx.npz"} ELSE {})

\* The failures that collect_and_parse_*_stats log for pulled files whose
\* parsed series are not all non-empty.
ParseEvents(files, tx_parsed, rx_parsed) ==
    (IF "tx.csv" \in files /\ ~tx_parsed THEN <<"tx_empty">> ELSE <<>>)
    \o (IF "stats.log" \in files /\ ~rx_parsed THEN <<"rx_empty">> ELSE <<>>)

\* One iteration of "for i, (tx_pod, rx_pod) in enumerate(zip(tx_pods, rx_pods))":
\* tx_core_list[i] and rx_core_list[i] are indexed by the pair's position.
CollectPair(i) ==
    /\ pc = "collect"
    /\ i = colIdx
    /\ IF i > Len(tx_core_list) \/ i > Len(rx_core_list)
       THEN \* IndexError
            /\ pc' = "crashed"
            /\ UNCHANGED << colIdx, hist, artifacts >>
       ELSE \* write_pair_metadata, then the TX and the RX side: pull, parse,
            \* np.savez; an exception of a side is logged and swallowed
            /\ \E tx_parsed \in (IF "tx.csv" \in podFiles[i] THEN BOOLEAN ELSE {FALSE}),
                  rx_parsed \in (IF "stats.log" \in podFiles[i] THEN BOOLEAN ELSE {FALSE}) :
                 /\ artifacts' = [artifacts EXCEPT ![i] =
                                    Pulled(podFiles[i], tx_parsed, rx_parsed)]
                 /\ hist' = [hist EXCEPT ![i] =
                               Append(@, "collect")
                               \o ParseEvents(podFiles[i], tx_parsed, rx_parsed)]
            /\ colIdx' = i + 1
            /\ pc' = IF i = NPairs THEN "join" ELSE "collect"
    /\ UNCHANGED << cfg, sigint, rxIdx, rx_core_list, tx_core_list, session,
                    pktgen, podFiles >>
    /\ UnchangedWorkers /\ UnchangedSamplers
    /\ UNCHANGED restVars

\* for t_ in vf_monitor_threads: t_.join()
JoinSamplers ==
    /\ pc = "join"
    /\ \A s \in Samplers : spc[s] # "running"
    /\ pc' = "kill"
    /\ UNCHANGED << cfg, sigint, rxIdx, rx_core_list, tx_core_list, colIdx,
                    hist, session, pktgen >>
    /\ UnchangedWorkers /\ UnchangedSamplers /\ UnchangedFiles
    /\ UNCHANGED restVars

\* kill_tmux_session: "tmux kill-session" runs (check=True) only when
\* has-session finds the session; it removes the session or raises.
KillOutcomes == IF session THEN BOOLEAN ELSE {TRUE}

\* kill_tmux_session at the end of main_start_generator; a failure is
\* logged and the run goes on.
KillTmux ==
    /\ pc = "kill"
    /\ \E killed \in KillOutcomes :
         /\ session' = (session /\ ~killed)
         /\ pktgen' = [p \in Pods |-> pktgen[p] /\ ~killed]
    /\ pc' = "close"
    /\ UNCHANGED << cfg, sigint, rxIdx, rx_core_list, tx_core_list, colIdx, hist >>
    /\ UnchangedWorkers /\ UnchangedSamplers /\ UnchangedFiles
    /\ UNCHANGED restVars

\* ssh_mgr.close_all(), return
CloseAll ==
    /\ pc = "close"
    /\ pool' = "closed"
    /\ pc' = "done"
    /\ UNCHANGED << cfg, sigint, rxIdx, rx_core_list, tx_core_list, colIdx,
                    hist, session, pktgen, spc, vf_duration >>
    /\ UnchangedWorkers /\ UnchangedFiles
    /\ UNCHANGED restVars

\* ------------------------------------------------- hypervisor sampler
\* monitor_vf_stats_remote leaves its loop (time.time() - start_time >=
\* duration), or returns early when no VF is active.
SamplerFinish(s) ==
    /\ Alive
    /\ spc[s] = "running"
    /\ spc' = [spc EXCEPT ![s] = "done"]
    /\ UNCHANGED << cfg, pc, sigint, rxIdx, rx_core_list, tx_core_list, colIdx,
                    hist, session, pktgen, vf_duration, pool >>
    /\ UnchangedWorkers /\ UnchangedFiles
    /\ UNCHANGED restVars

\* ------------------------------------------------------------ SIGINT
Events(p) == {hist[p][k] : k \in DOMAIN hist[p]}

\* start_dpdk_testpmd has returned with a receiver started, and no
\* run_for_pod has reached launch_pktgen.
InWindow ==
    /\ pc \in {"cmdline", "move", "tmux", "tx_wait"}
    /\ \E p \in Pods : "rx_start" \in Events(p)
    /\ \A p \in Pods : "gen_launch" \notin Events(p)

\* KeyboardInterrupt is raised in the main thread.  Inside the "with
\* ThreadPoolExecutor" block the exception first waits in shutdown(wait=True)
\* for the running workers.
Sigint ==
    /\ Alive
    /\ sigint = "no"
    /\ sigint' = IF InWindow THEN "window" ELSE "other"
    /\ pc' = IF pc = "tx_wait" THEN "abort_wait" ELSE "handler"
    /\ UNCHANGED << cfg, rxIdx, rx_core_list, tx_core_list, colIdx, hist,
                    session, pktgen >>
    /\ UnchangedWorkers /\ UnchangedSamplers /\ UnchangedFiles
    /\ UNCHANGED restVars

AbortWait ==
    /\ pc = "abort_wait"
    /\ AllWorkersDone
    /\ pc' = "handler"
    /\ UNCHANGED << cfg, sigint, rxIdx, rx_core_list, tx_core_list, colIdx,
                    hist, session, pktgen >>
    /\ UnchangedWorkers /\ UnchangedSamplers /\ UnchangedFiles
    /\ UNCHANGED restVars

\* except KeyboardInterrupt: kill_tmux_session (a failure is logged);
\* vf_monitor_threads is still None (main_start_generator did not return),
\* so nothing is joined; sys.exit(130).
KbdHandler ==
    /\ pc = "handler"
    /\ \E killed \in KillOutcomes :
         /\ session' = (session /\ ~killed)
         /\ pktgen' = [p \in Pods |-> pktgen[p] /\ ~killed]
    /\ pc' = "exit130"
    /\ UNCHANGED << cfg, sigint, rxIdx, rx_core_list, tx_core_list, colIdx, hist >>
    /\ UnchangedWorkers /\ UnchangedSamplers /\ UnchangedFiles
    /\ UNCHANGED restVars

Next ==
    \/ ResolveTopology
    \/ StartEsxiCollector
    \/ CopyFlows
    \/ SkipCopy
    \/ SkipTestpmd
    \/ \E p \in Pods : RxPod(p)
    \/ CollectCmdline
    \/ MovePktgenProfiles
    \/ PrepareTmuxAndSpawn
    \/ \E p \in Pods : W_Prepare(p)
    \/ \E p \in Pods : W_Launch(p)
    \/ \E p \in Pods : W_LoopSample(p)
    \/ \E p \in Pods : W_LastSample(p)
    \/ \E p \in Pods : W_Stop(p)
    \/ \E p \in Pods : W_FinalSample(p)
    \/ TxJoin
    \/ DrainSleep
    \/ StopTestpmd
    \/ \E i \in Pods : CollectPair(i)
    \/ JoinSamplers
    \/ KillTmux
    \/ CloseAll
    \/ \E s \in Samplers : SamplerFinish(s)
    \/ Sigint
    \/ AbortWait
    \/ KbdHandler

Spec == Init /\ [][Next]_vars

\* ===================================================================
\* __main__: start_generator, from the command line to the generators
\* ===================================================================
RECURSIVE BitAnd(_, _)
\* a & b of two non-negative ints
BitAnd(a, b) ==
    IF a = 0 \/ b = 0
    THEN 0
    ELSE (a % 2) * (b % 2) + 2 * BitAnd(a \div 2, b \div 2)

\* def is_power_of_two(n): return n > 0 and (n & (n - 1)) == 0
is_power_of_two(n) == n > 0 /\ BitAnd(n, n - 1) = 0

\* The tests of __main__ that raise ValueError before main_start_generator.
ArgsAccepted(c, o) ==
    /\ 1024 <= o.control_port /\ o.control_port <= 65535
    /\ ~(~IsNone(o.tx_num_core) /\ Val(o.tx_num_core) < 1)
    /\ ~(~IsNone(o.rx_num_core) /\ Val(o.rx_num_core) < 1)
    /\ ~(c.sample_interval < 1)
    /\ ~(c.duration <= 0)
    /\ ~(c.sample_interval >= c.duration)
    /\ is_power_of_two(o.txd)
    /\ is_power_of_two(o.rxd)

DescCounts == (0 - 1)..MaxDesc
NumCores == {None, Some(0), Some(1)}
StartOpts ==
    [ control_port : {1023, 1024, 65535, 65536},
      txd          : DescCounts,
      rxd          : DescCounts,
      tx_num_core  : NumCores,
      rx_num_core  : NumCores ]
StartConfigs ==
    [ duration        : 0..3,
      sample_interval : 0..3,
      sample_count    : {None},
      skip_testpmd    : {FALSE},
      skip_copy       : {FALSE} ]

\* Pods found by get_pods: any two counts that differ, no pods at all, or
\* NPairs of each.
Topologies ==
    {t \in (0..(NPairs + 1)) \X (0..(NPairs + 1)) : t[1] = t[2] => t[1] \in {0, NPairs}}

\* The command line was parsed: either any options on NPairs pairs, or any
\* topology under the default options.
InitStart ==
    /\ PoolInit
    /\ ArchIdle
    /\ ToolIdle
    /\ CallIdle
    /\ NameIdle
    /\ RunInit
    /\ ~session
    /\ pc = "validate"
    /\ \/ /\ cfg \in StartConfigs
          /\ opts \in StartOpts
          /\ tx_n = NPairs /\ rx_n = NPairs
       \/ /\ cfg \in {c \in StartConfigs : ValidConfig(c)}
          /\ opts = DefaultOpts
          /\ \E t \in Topologies : tx_n = t[1] /\ rx_n = t[2]

\* Mutant of Validate: the descriptor counts are not tested.
Validate_NoDescTest ==
    /\ pc = "validate"
    /\ \E known_profile \in BOOLEAN :
         pc' = IF known_profile
                  /\ ArgsAccepted(cfg, [opts EXCEPT !.txd = 1, !.rxd = 1])
               THEN "resolve" ELSE "invalid"
    /\ UNCHANGED << cfg, sigint, rxIdx, rx_core_list, tx_core_list, colIdx,
                    hist, session, pktgen >>
    /\ UnchangedWorkers /\ UnchangedSamplers /\ UnchangedFiles
    /\ UNCHANGED restVars

\* __main__: an unknown profile is exit(1); a refused option raises
\* ValueError; otherwise main_start_generator is called.
Validate ==
    /\ pc = "validate"
    /\ \E known_profile \in BOOLEAN :
         pc' = IF known_profile /\ ArgsAccepted(cfg, opts)
               THEN "resolve" ELSE "invalid"
    /\ UNCHANGED << cfg, sigint, rxIdx, rx_core_list, tx_core_list, colIdx,
                    hist, session, pktgen >>
    /\ UnchangedWorkers /\ UnchangedSamplers /\ UnchangedFiles
    /\ UNCHANGED restVars

\* The status the process ends with: sys.exit(130) in the handler, 0 when
\* the script runs to its end, 1 for exit(1) and for an exception that
\* nothing catches; -1 while it runs.
ExitCode ==
    CASE pc = "done" -> 0
      [] pc = "exit130" -> 130
      [] pc \in {"invalid", "mismatch", "crashed"} -> 1
      [] OTHER -> 0 - 1

NextStart ==
    \/ Validate
    \/ ResolveTopology
    \/ StartEsxiCollector
    \/ CopyFlows
    \/ \E p \in Pods : RxPod(p)
    \/ CollectCmdline
    \/ MovePktgenProfiles
    \/ PrepareTmuxAndSpawn
    \/ \E p \in Pods : W_Prepare(p)
    \/ \E p \in Pods : W_Launch(p)

SpecStart == InitStart /\ [][NextStart]_vars

\* ===================================================================
\* collect_and_parse_rx_stats / collect_and_parse_tx_stats: one pod
\* ===================================================================
nonArchVars == << runVars, inputVars, poolVars, toolVars, callVars, nameVars, coreVars >>

\* parse_testpmd_log: the markers in the order of its if / elif chain, and
\* the list each one feeds.
Markers == << "Rx-pps:", "Tx-pps:", "RX-bytes:", "TX-bytes:", "RX-packets:",
              "TX-packets:", "RX-missed:", "RX-nombuf:", "RX-errors:" >>
MarkerKey == << "rx_pps", "tx_pps", "rx_bytes", "tx_bytes", "rx_packets",
                "tx_packets", "rx_missed", "rx_nombuf", "rx_errors" >>
RxKeys == {MarkerKey[k] : k \in DOMAIN MarkerKey}

\* parse_pktgen_port_rate_csv / parse_pktgen_port_stats_csv: the keys of
\* their metrics dicts.
RateKeys == {"mbits_tx", "pkts_tx", "obytes", "opackets", "imissed", "oerrors",
             "rx_nombuf", "pkts_rx", "mbits_rx", "ipackets", "ibytes", "ierrors"}
PortBaseKeys == {"rx_nombuf", "opackets", "imissed", "ierrors", "ibytes",
                 "oerrors", "obytes", "ipackets"}
PortKey(k) == "port_" \o k
PortKeys == {PortKey(k) : k \in PortBaseKeys}
TxKeys == RateKeys \cup PortKeys

\* Lines of a stat log, as the set of markers found in them: one marker, the
\* lines testpmd prints with several counters, or none.
LogLines ==
    {{Markers[k]} : k \in DOMAIN Markers}
    \cup {{"RX-packets:", "RX-missed:", "RX-bytes:"},
          {"TX-packets:", "TX-errors:", "TX-bytes:"}, {}}

\* Lines of a CSV file, as the set of keys of their key=value fields: a
\* whole line, a line cut short of one key, or an empty one.
RateLines == {RateKeys, RateKeys \ {"pkts_tx"}, {"pkts_tx"}, {}}
PortLines == {PortBaseKeys, PortBaseKeys \ {"opackets"}, PortBaseKeys \ {"obytes"}, {}}

\* The first test of the if / elif chain that the line passes (0: none).
FirstMarker(line) ==
    IF \E k \in DOMAIN Markers : Markers[k] \in line
    THEN CHOOSE k \in DOMAIN Markers :
           Markers[k] \in line /\ \A m \in 1..(k - 1) : Markers[m] \notin line
    ELSE 0

Max2(a, b) == IF a >= b THEN a ELSE b

\* "normalize error/missed/nombuf lengths"
Padded(l) ==
    LET max_len == Max2(Max2(l["rx_pps"], l["rx_errors"]),
                        Max2(l["rx_missed"], l["rx_nombuf"])) IN
      [k \in DOMAIN l |->
         IF k \in {"rx_errors", "rx_missed", "rx_nombuf"} THEN max_len ELSE l[k]]

\* The logging loop calls arr.min() on every series: ValueError on an empty one.
AllNonEmpty(l) == \A k \in DOMAIN l : l[k] >= 1

\* A stat log or the two CSV files were pulled from the pod.
InitArchive ==
    /\ Init
    /\ IsNone(cfg.sample_count) /\ ~cfg.skip_testpmd /\ ~cfg.skip_copy /\ ~session

\* kubectl cp of the stat log or of the rate CSV succeeded.
OpenFile ==
    /\ apc = "idle"
    /\ \/ apc' = "rx_log" /\ lists' = [k \in RxKeys |-> 0]
       \/ apc' = "tx_rate" /\ lists' = [k \in TxKeys |-> 0]
    /\ UNCHANGED << nlines, npz >>
    /\ UNCHANGED nonArchVars

\* parse_testpmd_log: one line; digits says whether the regex of the
\* marker finds a number.
ParseLogLine(line, digits) ==
    /\ apc = "rx_log"
    /\ nlines < MaxLines
    /\ nlines' = nlines + 1
    /\ lists' = IF FirstMarker(line) # 0 /\ digits
                THEN [lists EXCEPT ![MarkerKey[FirstMarker(line)]] = @ + 1]
                ELSE lists
    /\ UNCHANGED << apc, npz >>
    /\ UNCHANGED nonArchVars

\* The end of collect_and_parse_rx_stats: padding, the logging loop,
\* np.savez; an exception is logged.
SaveRx ==
    /\ apc = "rx_log"
    /\ IF AllNonEmpty(Padded(lists))
       THEN apc' = "saved" /\ npz' = Some(Padded(lists))
       ELSE apc' = "failed" /\ UNCHANGED npz
    /\ UNCHANGED << lists, nlines >>
    /\ UNCHANGED nonArchVars

\* parse_pktgen_port_rate_csv: one line; every key=value field whose key is
\* in metrics appends to its list (0 when the value is no int).
ParseRateLine(line) ==
    /\ apc = "tx_rate"
    /\ nlines < MaxLines
    /\ nlines' = nlines + 1
    /\ lists' = [k \in DOMAIN lists |-> IF k \in line /\ k \in RateKeys
                                        THEN lists[k] + 1 ELSE lists[k]]
    /\ UNCHANGED << apc, npz >>
    /\ UNCHANGED nonArchVars

\* The rate CSV is read; kubectl cp of the port CSV succeeded.
EndRate ==
    /\ apc = "tx_rate"
    /\ apc' = "tx_port"
    /\ nlines' = 0
    /\ UNCHANGED << lists, npz >>
    /\ UNCHANGED nonArchVars

\* parse_pktgen_port_stats_csv: one line; the keys get the port_ prefix.
ParsePortLine(line) ==
    /\ apc = "tx_port"
    /\ nlines < MaxLines
    /\ nlines' = nlines + 1
    /\ lists' = [k \in DOMAIN lists |->
                   IF \E b \in line : PortKey(b) = k /\ k \in PortKeys
                   THEN lists[k] + 1 ELSE lists[k]]
    /\ UNCHANGED << apc, npz >>
    /\ UNCHANGED nonArchVars

\* The end of collect_and_parse_tx_stats: the merged dict, the logging
\* loop, np.savez; an exception is logged.
SaveTx ==
    /\ apc = "tx_port"
    /\ IF AllNonEmpty(lists)
       THEN apc' = "saved" /\ npz' = Some(lists)
       ELSE apc' = "failed" /\ UNCHANGED npz
    /\ UNCHANGED << lists, nlines >>
    /\ UNCHANGED nonArchVars

NextArchive ==
    \/ OpenFile
    \/ \E line \in LogLines, digits \in BOOLEAN : ParseLogLine(line, digits)
    \/ SaveRx
    \/ \E line \in RateLines : ParseRateLine(line)
    \/ EndRate
    \/ \E line \in PortLines : ParsePortLine(line)
    \/ SaveTx

SpecArchive == InitArchive /\ [][NextArchive]_vars

\* ===================================================================
\* The commands validate_npz and sanity
\* ===================================================================
nonToolVars == << runVars, inputVars, poolVars, archVars, callVars, nameVars, coreVars >>

\* Another command than start_generator is run: nothing of a run exists.
NoRun ==
    /\ PoolInit
    /\ ArchIdle
    /\ CallIdle
    /\ RunInit
    /\ ~session
    /\ cfg = [duration |-> 3, sample_interval |-> 2, sample_count |-> None,
              skip_testpmd |-> FALSE, skip_copy |-> FALSE]
    /\ opts = DefaultOpts
    /\ tx_n = NPairs /\ rx_n = NPairs
    /\ pc = "tool"

required_rx_keys == {"rx_pps", "tx_pps", "rx_bytes", "rx_packets"}
required_tx_keys == {"pkts_tx", "obytes", "opackets", "port_obytes"}

\* A file handed to check_npz_validity: whether np.load reads it, whether
\* its path holds "_rx_" / "_tx_", and its series (name -> length).
\* Returns is_valid.
check_npz_validity(f, min_samples) ==
    IF ~f.readable THEN FALSE
    ELSE IF ~(f.is_rx \/ f.is_tx) THEN FALSE
    ELSE /\ f.is_rx =>
              \A key \in required_rx_keys :
                 /\ key \in DOMAIN f.data
                 /\ key = "rx_pps" => ~(f.data[key] < min_samples)
         /\ f.is_tx =>
              \A key \in required_tx_keys :
                 /\ key \in DOMAIN f.data
                 /\ ~(f.data[key] < min_samples)

\* The series validate_npz is tried on: any of these names, present with
\* 0..MaxSamples entries or absent.
RxSeries == required_rx_keys
TxSeries == required_tx_keys \cup {"port_opackets"}
Contents(keys) == UNION {[ks -> 0..MaxSamples] : ks \in SUBSET keys}
NpzFiles ==
    {[readable |-> TRUE, is_rx |-> r, is_tx |-> t, data |-> d] :
        r \in BOOLEAN, t \in BOOLEAN, d \in Contents(RxSeries) \cup Contents(TxSeries)}
    \cup {[readable |-> FALSE, is_rx |-> r, is_tx |-> t, data |-> <<>>] :
            r \in BOOLEAN, t \in BOOLEAN}

InitValidate ==
    /\ NoRun
    /\ NameIdle
    /\ tree = EmptyTree
    /\ call \in [command : {"validate_npz"}, file : NpzFiles,
                 min_samples : 0..MaxSamples]
    /\ out = NoOut

\* __main__, validate_npz
ValidateNpz ==
    /\ call.command = "validate_npz"
    /\ IsNone(out.status)
    /\ LET is_valid == check_npz_validity(call.file, call.min_samples) IN
         out' = [is_valid |-> is_valid, status |-> Some(IF is_valid THEN 0 ELSE 1)]
    /\ UNCHANGED << tree, call >>
    /\ UNCHANGED nonToolVars

NextValidate == ValidateNpz

SpecValidate == InitValidate /\ [][NextValidate]_vars

\* ---------------------------------------------------------------- sanity
required_files == {"tx_npz", "rx_npz", "metadata", "rx_stats", "rx_warmup",
                   "tx_rate_stats", "tx_port_stats"}

\* Profile directories results/<expid>/<tx>-<rx>/<profile>/ tried: complete
\* ones whose TX archive holds 1 or MaxSamples samples, one without the rate
\* CSV, one without the TX archive, one without any archive.
Dir(files, t, r) == [state |-> "dir", files |-> files, tx_len |-> t, rx_len |-> r]
ProfileDirs ==
    {Dir(required_files, t, MaxSamples) : t \in {1, MaxSamples}}
    \cup {Dir(required_files \ {"tx_rate_stats"}, MaxSamples, MaxSamples),
          Dir(required_files \ {"tx_npz"}, 0, MaxSamples),
          Dir({"metadata", "rx_stats", "rx_warmup"}, 0, 0)}

\* aux: results/<expid>/ holds files of its own (*_cmdline.txt, esxi_stats/).
Trees == [ExpIds -> [aux : BOOLEAN, pairs : [PairDirs -> {AbsentDir} \cup ProfileDirs]]]

\* discover_experiments: the files whose name starts with the experiment id
\* (the archives), as (exp_id, directory, file).
discover_experiments(t) ==
    {<<x, d, f>> \in ExpIds \X PairDirs \X {"tx_npz", "rx_npz"} :
        f \in t[x].pairs[d].files}

\* __main__: base_dirs holds one entry per discovered file.
BaseDirsLen(t, x) == Cardinality({e \in discover_experiments(t) : e[1] = x})
BaseDirs(t, x) == {e[2] : e \in {e \in discover_experiments(t) : e[1] = x}}
Discovered(t) == {x \in ExpIds : BaseDirsLen(t, x) > 0}

MaxLen(t) ==
    CHOOSE n \in {BaseDirsLen(t, x) : x \in Discovered(t)} :
       \A x \in Discovered(t) : BaseDirsLen(t, x) <= n

sanity_check(t, x) ==
    /\ ~(BaseDirsLen(t, x) < MaxLen(t))
    /\ \A d \in BaseDirs(t, x) : required_files \subseteq t[x].pairs[d].files

\* The archives written by a run hold every series of their side, of one
\* length here.
TreeNpz(dir, f) ==
    IF f = "tx_npz"
    THEN [readable |-> TRUE, is_rx |-> FALSE, is_tx |-> TRUE,
          data |-> [k \in TxKeys |-> dir.tx_len]]
    ELSE [readable |-> TRUE, is_rx |-> TRUE, is_tx |-> FALSE,
          data |-> [k \in RxKeys |-> dir.rx_len]]

\* __main__: the directories collected in invalid_experiments[x].
invalid_experiments(t, x, min_samples) ==
    IF ~sanity_check(t, x)
    THEN BaseDirs(t, x)
    ELSE {d \in BaseDirs(t, x) :
            \E f \in {"tx_npz", "rx_npz"} \cap t[x].pairs[d].files :
               ~check_npz_validity(TreeNpz(t[x].pairs[d], f), min_samples)}

\* shutil.rmtree of every collected directory
Purged(t, min_samples) ==
    [x \in ExpIds |->
       [t[x] EXCEPT !.pairs =
          [d \in PairDirs |->
             IF x \in Discovered(t) /\ d \in invalid_experiments(t, x, min_samples)
             THEN StubDir ELSE t[x].pairs[d]]]]

InitSanity ==
    /\ NoRun
    /\ NameIdle
    /\ tree \in Trees
    /\ call = NoCall
    /\ out = NoOut

\* __main__, sanity: the report and, with --purge, the removal. On a tree
\* without any archive max() of sanity_check raises.
Sanity(purge, min_samples) ==
    /\ call' = [command |-> "sanity", purge |-> purge, min_samples |-> min_samples]
    /\ IF Discovered(tree) = {}
       THEN /\ out' = [valid |-> {}, bad_npz |-> {}, status |-> Some(1)]
            /\ UNCHANGED tree
       ELSE /\ out' = [valid |-> {x \in Discovered(tree) : sanity_check(tree, x)},
                       bad_npz |-> {x \in Discovered(tree) :
                                      /\ sanity_check(tree, x)
                                      /\ invalid_experiments(tree, x, min_samples) # {}},
                       status |-> Some(0)]
            /\ tree' = IF purge THEN Purged(tree, min_samples) ELSE tree
    /\ UNCHANGED nonToolVars

NextSanity == \E purge \in BOOLEAN, min_samples \in 1..MaxSamples : Sanity(purge, min_samples)

SpecSanity == InitSanity /\ [][NextSanity]_vars

\* ===================================================================
\* The blocking outward calls
\* ===================================================================
nonCallVars == << runVars, inputVars, poolVars, archVars, toolVars, nameVars, coreVars >>

StopTimeout == 5       \* send_pktgen_stop: timeout
WarmupDuration == 4    \* --warmup-duration: default

\* The call sites of each caller: kubectl exec of the warm-up, kubectl exec
\* pkill of stop_testpmd_on_rx_pods, kubectl cp of the collection;
\* kubectl exec of a sample, of the stop; exec_command on a hypervisor.
SitesOf(c) ==
    CASE c = "controller" -> {"warmup", "rx_stop", "cp"}
      [] c = "driver" -> {"sample", "stop"}
      [] c = "sampler" -> {"ssh_exec"}

\* What cuts a call short when the remote end never answers: the timeout
\* argument of subprocess.run, or `timeout Ns` around the remote command.
TimeoutOf(site) ==
    CASE site = "stop" -> Some(StopTimeout)
      [] site = "warmup" -> Some(WarmupDuration)
      [] OTHER -> None

\* subprocess.run / exec_command is entered.
CallOut(c, site) ==
    /\ cstate[c] = "idle"
    /\ ncalls[c] < MaxCalls
    /\ cstate' = [cstate EXCEPT ![c] = "waiting"]
    /\ csite' = [csite EXCEPT ![c] = site]
    /\ cleft' = [cleft EXCEPT ![c] = TimeoutOf(site)]
    /\ ncalls' = [ncalls EXCEPT ![c] = @ + 1]
    /\ UNCHANGED nonCallVars

\* The remote end answers: the call returns.
Answer(c) ==
    /\ cstate[c] = "waiting"
    /\ cstate' = [cstate EXCEPT ![c] = "idle"]
    /\ cleft' = [cleft EXCEPT ![c] = None]
    /\ UNCHANGED << csite, ncalls >>
    /\ UNCHANGED nonCallVars

\* A second passes.
Tick(c) ==
    /\ cstate[c] = "waiting"
    /\ ~IsNone(cleft[c])
    /\ Val(cleft[c]) > 0
    /\ cleft' = [cleft EXCEPT ![c] = Some(Val(@) - 1)]
    /\ UNCHANGED << cstate, csite, ncalls >>
    /\ UNCHANGED nonCallVars

\* subprocess.TimeoutExpired is caught, or `timeout` ends the remote
\* command and the exec returns 124.
Expire(c) ==
    /\ cstate[c] = "waiting"
    /\ cleft[c] = Some(0)
    /\ cstate' = [cstate EXCEPT ![c] = "idle"]
    /\ cleft' = [cleft EXCEPT ![c] = None]
    /\ UNCHANGED << csite, ncalls >>
    /\ UNCHANGED nonCallVars

InitCalls == NoRun /\ ToolIdle /\ NameIdle

NextCalls ==
    \/ \E c \in Callers : \E site \in SitesOf(c) : CallOut(c, site)
    \/ \E c \in Callers : Answer(c)
    \/ \E c \in Callers : Tick(c)
    \/ \E c \in Callers : Expire(c)

\* Time passes and an expired bound takes effect; the remote end owes
\* nothing.
SpecCalls ==
    /\ InitCalls
    /\ [][NextCalls]_vars
    /\ \A c \in Callers : WF_vars(Tick(c)) /\ WF_vars(Expire(c))

\* ===================================================================
\* The names of the archives of a run
\* ===================================================================
nonNameVars == << runVars, inputVars, poolVars, archVars, toolVars, callVars, coreVars >>

Profiles == {"profile_a", "profile_b"}
ProfileNo(profile) == IF profile = "profile_a" THEN 1 ELSE 2

\* A part of a file name between two "_": text, or digits.
Text(str) == [s |-> str, n |-> 0]
Digits(num) == [s |-> "", n |-> num]

\* hashlib.md5(f"{cmd.profile}_{timestamp}").hexdigest()[:8]: a digest
\* that depends on both and is never the empty string.
ExpidOf(profile, timestamp) == 1 + ((5 * ProfileNo(profile) + 3 * timestamp) % 16)

\* build_stats_filename, as the parts of the name; expid 0 is "".
build_stats_filename(pod_name, tx_cores, rx_cores, profile_name, timestamp, role, expid) ==
    LET expid_prefix == IF expid # 0 THEN << Digits(expid) >> ELSE << >> IN
      expid_prefix
      \o << Text(pod_name), Text(role), Text("txcores"), Text(tx_cores),
            Text("rxcores"), Text(rx_cores), Text("spec"), Text(profile_name),
            Digits(timestamp) >>

TxPodName(i) == IF i = 1 THEN "tx0" ELSE IF i = 2 THEN "tx1" ELSE "tx2"
RxPodName(i) == IF i = 1 THEN "rx0" ELSE IF i = 2 THEN "rx1" ELSE "rx2"

InitNames ==
    /\ NoRun
    /\ ToolIdle
    /\ NameIdle

\* A second passes.
ClockTick ==
    /\ clock < MaxClock
    /\ clock' = clock + 1
    /\ UNCHANGED << stamp, names, npos >>
    /\ UNCHANGED nonNameVars

\* main_start_generator: timestamp and expid of the run.
StampRun(profile) ==
    /\ IsNone(stamp)
    /\ stamp' = Some([profile |-> profile, timestamp |-> clock,
                      expid |-> ExpidOf(profile, clock)])
    /\ UNCHANGED << clock, names, npos >>
    /\ UNCHANGED nonNameVars

\* Mutant of NameRx: the RX archive is named after the time of its
\* collection.
NameRx_FreshTimestamp(i) ==
    /\ ~IsNone(stamp)
    /\ npos = << i, "rx" >>
    /\ \E saved \in BOOLEAN :
         names' = [names EXCEPT ![i].rx =
                     IF saved
                     THEN Some(build_stats_filename(RxPodName(i), "1", "1",
                                 Val(stamp).profile, clock, "rx",
                                 Val(stamp).expid))
                     ELSE None]
    /\ npos' = << i + 1, "tx" >>
    /\ UNCHANGED << clock, stamp >>
    /\ UNCHANGED nonNameVars

\* collect_and_parse_tx_stats of pair i: out_file, when the archive is saved.
NameTx(i) ==
    /\ ~IsNone(stamp)
    /\ npos = << i, "tx" >>
    /\ \E saved \in BOOLEAN :
         names' = [names EXCEPT ![i].tx =
                     IF saved
                     THEN Some(build_stats_filename(TxPodName(i), "1", "1",
                                 Val(stamp).profile, Val(stamp).timestamp, "tx",
                                 Val(stamp).expid))
                     ELSE None]
    /\ npos' = << i, "rx" >>
    /\ UNCHANGED << clock, stamp >>
    /\ UNCHANGED nonNameVars

\* collect_and_parse_rx_stats of pair i: out_file, when the archive is saved.
NameRx(i) ==
    /\ ~IsNone(stamp)
    /\ npos = << i, "rx" >>
    /\ \E saved \in BOOLEAN :
         names' = [names EXCEPT ![i].rx =
                     IF saved
                     THEN Some(build_stats_filename(RxPodName(i), "1", "1",
                                 Val(stamp).profile, Val(stamp).timestamp, "rx",
                                 Val(stamp).expid))
                     ELSE None]
    /\ npos' = << i + 1, "tx" >>
    /\ UNCHANGED << clock, stamp >>
    /\ UNCHANGED nonNameVars

NextNames ==
    \/ ClockTick
    \/ \E profile \in Profiles : StampRun(profile)
    \/ \E i \in Pods : NameTx(i)
    \/ \E i \in Pods : NameRx(i)

SpecNames == InitNames /\ [][NextNames]_vars

\* ===================================================================
\* The core assignment of run_for_pod and start_dpdk_testpmd
\* ===================================================================
nonCoreVars == << runVars, inputVars, poolVars, archVars, toolVars, callVars,
                  nameVars >>

InitCores ==
    /\ NoRun
    /\ ToolIdle
    /\ clock = 0 /\ stamp = None /\ npos = << 1, "tx" >>
    /\ names = [p \in Pods |-> [tx |-> None, rx |-> None]]
    /\ core_out = None
    /\ cluster = [tx |-> {}, rx |-> {}]
    /\ pairing = None
    /\ EsxiIdle /\ SideIdle
    /\ \/ core_in \in [side : {"tx"}, numa_cores : NumaLists, latency : BOOLEAN,
                       rx_num_core : {None}]
       \/ core_in \in [side : {"rx"}, numa_cores : NumaLists, latency : {FALSE},
                       rx_num_core : RxNumCores]

AssignTx ==
    /\ core_in.side = "tx"
    /\ IsNone(core_out)
    /\ core_out' = Some(run_for_pod(core_in.numa_cores, core_in.latency))
    /\ UNCHANGED << core_in, cluster, pairing, nodes, monitors, sideVars >>
    /\ UNCHANGED nonCoreVars

AssignRx ==
    /\ core_in.side = "rx"
    /\ IsNone(core_out)
    /\ core_out' = Some(start_dpdk_testpmd(core_in.numa_cores, core_in.rx_num_core))
    /\ UNCHANGED << core_in, cluster, pairing, nodes, monitors, sideVars >>
    /\ UNCHANGED nonCoreVars

NextCores == AssignTx \/ AssignRx

SpecCores == InitCores /\ [][NextCores]_vars

\* ----------------------------------------------------------- the pairing
Suffixes == 0..MaxSuffix

\* get_pods: the names with prefix tx, and with prefix rx, each sorted (as
\* text; the prefix is the same, so by the text of the suffix).
get_pods(c) == << sorted(IncSeq(c.tx)), sorted(IncSeq(c.rx)) >>

\* main_start_generator up to the pairs of its collection loop:
\* zip(tx_pods, rx_pods), unless get_pods or the count test raises.
PairsOf(c) ==
    LET tx_pods == get_pods(c)[1]
        rx_pods == get_pods(c)[2] IN
      IF tx_pods = << >> \/ rx_pods = << >> THEN [status |-> "no_pods", pairs |-> << >>]
      ELSE IF Len(tx_pods) # Len(rx_pods) THEN [status |-> "mismatch", pairs |-> << >>]
      ELSE [status |-> "started",
            pairs |-> [i \in 1..Len(tx_pods) |-> << tx_pods[i], rx_pods[i] >>]]

InitPairs ==
    /\ NoRun
    /\ ToolIdle
    /\ clock = 0 /\ stamp = None /\ npos = << 1, "tx" >>
    /\ names = [p \in Pods |-> [tx |-> None, rx |-> None]]
    /\ core_in = [side |-> "none", numa_cores |-> << >>, latency |-> FALSE,
                  rx_num_core |-> None]
    /\ core_out = None
    /\ cluster \in [tx : SUBSET Suffixes, rx : SUBSET Suffixes]
    /\ pairing = None
    /\ EsxiIdle /\ SideIdle

ResolvePairs ==
    /\ IsNone(pairing)
    /\ pairing' = Some(PairsOf(cluster))
    /\ UNCHANGED << core_in, core_out, cluster, nodes, monitors, sideVars >>
    /\ UNCHANGED nonCoreVars

NextPairs == ResolvePairs

SpecPairs == InitPairs /\ [][NextPairs]_vars

\* ------------------------------------------------- the sampling threads
\* tx_nodes and rx_nodes hold the node of every pod of the run.
NodeLists == { << n >> : n \in Nodes } \cup { << n, m >> : n, m \in Nodes }

\* pod_to_esxi_host_mapping: the label of every node of the cluster that
\* has one.
EsxiMaps == [Nodes -> Hosts \cup {NoLabel}]

\* The loop of start_esxi_collector over set(tx_nodes + rx_nodes):
\* a node without the label is skipped with a warning, a host already
\* in esxi_seen is skipped, any other host gets an entry of esxi_nic_map.
RECURSIVE EsxiLoop(_, _, _, _)
EsxiLoop(todo, esxi_map, esxi_seen, acc) ==
    IF todo = {} THEN acc
    ELSE LET node == CHOOSE n \in todo : TRUE
             esxi_host == esxi_map[node] IN
           IF esxi_host = NoLabel
           THEN EsxiLoop(todo \ {node}, esxi_map, esxi_seen,
                         [acc EXCEPT !.warned = @ \cup {node}])
           ELSE IF esxi_host \in esxi_seen
           THEN EsxiLoop(todo \ {node}, esxi_map, esxi_seen, acc)
           ELSE EsxiLoop(todo \ {node}, esxi_map, esxi_seen \cup {esxi_host},
                         [acc EXCEPT !.threads = Append(@, esxi_host)])

\* start_esxi_collector: one thread per entry of esxi_nic_map, each named
\* here by the host it samples.
start_esxi_collector(tx_nodes, rx_nodes, esxi_map) ==
    EsxiLoop(SeqSet(tx_nodes \o rx_nodes), esxi_map, {},
             [threads |-> << >>, warned |-> {}])

\* main_start_generator around it: an empty esxi_map raises RuntimeError
\* before the collector, the copy and the launches.
CollectorStep(n) ==
    IF \A w \in Nodes : n.esxi_map[w] = NoLabel
    THEN [status |-> "raise", threads |-> << >>, warned |-> {}]
    ELSE LET r == start_esxi_collector(n.tx_nodes, n.rx_nodes, n.esxi_map) IN
           [status |-> "proceed", threads |-> r.threads, warned |-> r.warned]

InitEsxi ==
    /\ NoRun
    /\ ToolIdle
    /\ clock = 0 /\ stamp = None /\ npos = << 1, "tx" >>
    /\ names = [p \in Pods |-> [tx |-> None, rx |-> None]]
    /\ core_in = [side |-> "none", numa_cores |-> << >>, latency |-> FALSE,
                  rx_num_core |-> None]
    /\ core_out = None
    /\ cluster = [tx |-> {}, rx |-> {}]
    /\ pairing = None
    /\ nodes \in [tx_nodes : NodeLists, rx_nodes : NodeLists, esxi_map : EsxiMaps]
    /\ monitors = None
    /\ SideIdle

StartCollector ==
    /\ IsNone(monitors)
    /\ monitors' = Some(CollectorStep(nodes))
    /\ UNCHANGED << core_in, core_out, cluster, pairing, nodes, sideVars >>
    /\ UNCHANGED nonCoreVars

NextEsxi == StartCollector

SpecEsxi == InitEsxi /\ [][NextEsxi]_vars

\* ===================================================================
\* The sampling loops, with their wall clock
\* ===================================================================
\* Everything outside sideVars is at rest.
SideRest ==
    /\ NoRun
    /\ ToolIdle
    /\ clock = 0 /\ stamp = None /\ npos = << 1, "tx" >>
    /\ names = [p \in Pods |-> [tx |-> None, rx |-> None]]
    /\ core_in = [side |-> "none", numa_cores |-> << >>, latency |-> FALSE,
                  rx_num_core |-> None]
    /\ core_out = None
    /\ cluster = [tx |-> {}, rx |-> {}]
    /\ pairing = None
    /\ EsxiIdle

nonSideVars == << nonCoreVars, core_in, core_out, cluster, pairing, nodes, monitors >>

nonLoopVars == << nonSideVars, timeVars, staleVars >>

nonTimeVars == << nonSideVars, loopVars, staleVars >>

nonStaleVars == << nonSideVars, loopVars, timeVars >>

Intervals == {1, 2}
Latencies == 0..MaxLat

\* What the esxcli output parses to (get_vf_stats): the counters named in
\* it; a failed remote command gives "" and so no counter.
Counters == {"rx_unicast_pkt", "tx_unicast_pkt"}
StatKeys == {{"rx_unicast_pkt"}, Counters}

\* The keys monitor_vf_stats_remote adds to a sample.
RowKeys == {"timestamp", "vf_id", "nic_name", "esxi_host"}

InitLoops ==
    /\ SideRest
    /\ loop_in \in [task : {"sampler", "driver"}, interval : Intervals,
                     duration : 1..MaxDur]
    /\ lpc = "start"
    /\ lnow = 0
    /\ vfs = << >>
    /\ vfi = 0
    /\ writer = None
    /\ csvf = None
    /\ logged = 0
    /\ taken = << >>
    /\ inflight = 0
    /\ lat_max = 0
    /\ TimeIdle /\ StaleIdle

\* get_active_vfs, "if not vfs: return", open(csv_file, "w").  A failed
\* remote command is printed by run_ssh_command_persistent and read as "".
M_Enumerate ==
    /\ loop_in.task = "sampler"
    /\ lpc = "start"
    /\ \E ok \in BOOLEAN, n \in 0..MaxVfs :
         /\ vfs' = IF ok THEN [k \in 1..n |-> k - 1] ELSE << >>
         /\ logged' = IF ok THEN logged ELSE logged + 1
         /\ IF ok /\ n > 0
            THEN lpc' = "test" /\ csvf' = Some(<< >>)
            ELSE lpc' = "done" /\ csvf' = csvf
    /\ UNCHANGED << loop_in, lnow, vfi, writer, taken, inflight, lat_max >>
    /\ UNCHANGED nonLoopVars

\* while time.time() - start_time < duration  (start_time is taken after
\* the enumeration)
M_Test ==
    /\ loop_in.task = "sampler"
    /\ lpc = "test"
    /\ IF lnow < loop_in.duration
       THEN lpc' = "for" /\ vfi' = 1
       ELSE lpc' = "done" /\ vfi' = vfi
    /\ UNCHANGED << loop_in, lnow, vfs, writer, csvf, logged, taken, inflight, lat_max >>
    /\ UNCHANGED nonLoopVars

\* for vf in vfs: the call of get_vf_stats is made
M_Call ==
    /\ loop_in.task = "sampler"
    /\ lpc = "for"
    /\ IF vfi <= Len(vfs)
       THEN lpc' = "call" /\ inflight' = inflight + 1
       ELSE lpc' = "sleep" /\ inflight' = inflight
    /\ UNCHANGED << loop_in, lnow, vfs, vfi, writer, csvf, logged, taken, lat_max >>
    /\ UNCHANGED nonLoopVars

\* csv.DictWriter.writerow: a key outside fieldnames raises ValueError, a
\* field without a key is written empty.
WriteRow(fieldnames, stats) ==
    [kind |-> "data", fields |-> fieldnames, filled |-> stats]

\* get_vf_stats returns; "if stats:" the row is written, the header first
\* when there is no writer yet.
M_Return ==
    /\ loop_in.task = "sampler"
    /\ lpc = "call"
    /\ \E lat \in Latencies, ok \in BOOLEAN, keys \in StatKeys :
         /\ lnow' = lnow + lat
         /\ lat_max' = IF lat > lat_max THEN lat ELSE lat_max
         /\ inflight' = inflight - 1
         /\ IF ~ok
            THEN /\ logged' = logged + 1
                 /\ lpc' = "for" /\ vfi' = vfi + 1
                 /\ UNCHANGED << writer, csvf, taken >>
            ELSE LET stats == keys \cup RowKeys
                     fieldnames == IF IsNone(writer) THEN stats ELSE Val(writer)
                     file == IF IsNone(writer)
                             THEN Append(Val(csvf), [kind |-> "header",
                                            fields |-> fieldnames, filled |-> fieldnames])
                             ELSE Val(csvf) IN
                   /\ logged' = logged
                   /\ taken' = Append(taken, stats)
                   /\ writer' = Some(fieldnames)
                   /\ IF stats \subseteq fieldnames
                      THEN /\ csvf' = Some(Append(file, WriteRow(fieldnames, stats)))
                           /\ lpc' = "for" /\ vfi' = vfi + 1
                      ELSE /\ csvf' = Some(file)
                           /\ lpc' = "raised" /\ vfi' = vfi
    /\ UNCHANGED << loop_in, vfs >>
    /\ UNCHANGED nonLoopVars

\* time.sleep(interval)
M_Sleep ==
    /\ loop_in.task = "sampler"
    /\ lpc = "sleep"
    /\ lnow' = lnow + loop_in.interval
    /\ lpc' = "test"
    /\ UNCHANGED << loop_in, vfs, vfi, writer, csvf, logged, taken, inflight, lat_max >>
    /\ UNCHANGED nonLoopVars

\* run_for_pod after launch_pktgen: for j in range(sample_count):
\* time.sleep(sample_interval), then the call is made.
D_Sleep ==
    /\ loop_in.task = "driver"
    /\ lpc \in {"start", "for"}
    /\ IF vfi < loop_in.duration \div loop_in.interval
       THEN /\ lnow' = lnow + loop_in.interval
            /\ lpc' = "call" /\ inflight' = inflight + 1
       ELSE /\ lpc' = "done"
            /\ UNCHANGED << lnow, inflight >>
    /\ UNCHANGED << loop_in, vfs, vfi, writer, csvf, logged, taken, lat_max >>
    /\ UNCHANGED nonLoopVars

\* sample_pktgen_stats_via_socat returns; "if not success: break".
D_Return ==
    /\ loop_in.task = "driver"
    /\ lpc = "call"
    /\ \E lat \in Latencies, success \in BOOLEAN :
         /\ lnow' = lnow + lat
         /\ lat_max' = IF lat > lat_max THEN lat ELSE lat_max
         /\ inflight' = inflight - 1
         /\ vfi' = vfi + 1
         /\ lpc' = IF success THEN "for" ELSE "done"
    /\ UNCHANGED << loop_in, vfs, writer, csvf, logged, taken >>
    /\ UNCHANGED nonLoopVars

NextLoops ==
    \/ M_Enumerate \/ M_Test \/ M_Call \/ M_Return \/ M_Sleep
    \/ D_Sleep \/ D_Return

SpecLoops == InitLoops /\ [][NextLoops]_vars

\* ===================================================================
\* One run with its wall clock: receivers, then generators
\* ===================================================================
\* Exit statuses of the warm-up command: 0, 124 (timeout ran out), another.
WarmupCodes == {0, WarmupTimedOut, 1}

\* Mutant of warmup_mac_learning: a status other than 0 and 124 raises.
warmup_mac_learning_Checked(returncode) ==
    IF returncode \in {0, WarmupTimedOut} THEN "returned" ELSE "raised"

\* warmup_mac_learning: subprocess.run without check; the status is only
\* looked at to log "Warmup Done".
warmup_mac_learning(returncode) == "returned"

\* expected_samples of start_dpdk_testpmd and launch_pktgen
expected_samples(c) == c.duration \div c.sample_interval

\* timeout_duration of start_dpdk_testpmd
rx_timeout_duration(c) ==
    c.duration + expected_samples(c) * BufferPerSample + RxSlack

\* timeout_duration of launch_pktgen
tx_timeout_duration(c) ==
    c.duration + expected_samples(c) * BufferPerSample + TxSlack

TimedConfigs ==
    { c \in [duration : 2..MaxDur, sample_interval : Intervals,
             sample_count : {None, Some(MaxOverride)}] :
        c.sample_interval < c.duration }

InitTimeline ==
    /\ SideRest
    /\ LoopIdle /\ StaleIdle
    /\ tl_in \in TimedConfigs
    /\ tpc = "rx"
    /\ tnow = 0
    /\ tidx = 1
    /\ warm = [p \in Pods |-> None]
    /\ rxl = [p \in Pods |-> None]
    /\ genl = [p \in Pods |-> None]
    /\ tdone = {}

\* start_dpdk_testpmd, one iteration: the core tests, pkill, the warm-up
\* (which takes warmup_duration when cut by its timeout), sleep(1), the
\* forwarder under its timeout, sleep(2), the health check.
T_RxPod(p) ==
    /\ tpc = "rx"
    /\ p = tidx
    /\ \E n \in CoreCounts, rx_num_core \in RxNumCores, rc \in WarmupCodes :
         IF n < MinCores
         THEN /\ tidx' = p + 1
              /\ tpc' = IF p = NPairs THEN "gen" ELSE "rx"
              /\ UNCHANGED << tnow, warm, rxl >>
         ELSE IF ~IsNone(rx_num_core) /\ n < Val(rx_num_core) + 1
         THEN /\ tpc' = "crashed"
              /\ UNCHANGED << tnow, tidx, warm, rxl >>
         ELSE LET spent == IF rc = WarmupTimedOut THEN WarmupDuration ELSE 0 IN
                /\ warm' = [warm EXCEPT ![p] = Some(rc)]
                /\ IF warmup_mac_learning(rc) = "returned"
                   THEN /\ rxl' = [rxl EXCEPT ![p] =
                                     Some([at |-> tnow + spent + 1,
                                           timeout |-> rx_timeout_duration(tl_in)])]
                        /\ tnow' = tnow + spent + 1 + 2
                        /\ tidx' = p + 1
                        /\ tpc' = IF p = NPairs THEN "gen" ELSE "rx"
                   ELSE /\ tpc' = "crashed"
                        /\ tnow' = tnow + spent
                        /\ UNCHANGED << tidx, rxl >>
    /\ UNCHANGED << tl_in, genl, tdone >>
    /\ UNCHANGED nonTimeVars

\* run_for_pod in its pool thread: None before the launch, or launch_pktgen
\* under its timeout, the sampling loop (j iterations: all of them, or one
\* when the first sample failed), the last sample, send_pktgen_stop.
T_Drive(p) ==
    /\ tpc = "gen"
    /\ p \notin tdone
    /\ tdone' = tdone \cup {p}
    /\ \E launched \in BOOLEAN, lat \in Latencies,
          j \in {IF SampleCount(tl_in) > 0 THEN 1 ELSE 0, SampleCount(tl_in)} :
         IF ~launched
         THEN genl' = genl
         ELSE /\ genl' = [genl EXCEPT ![p] =
                            Some([at |-> tnow,
                                  timeout |-> tx_timeout_duration(tl_in),
                                  stop |-> tnow + j * (tl_in.sample_interval + lat) + lat])]
    /\ UNCHANGED << tl_in, tpc, tnow, tidx, warm, rxl >>
    /\ UNCHANGED nonTimeVars

NextTimeline == \E p \in Pods : T_RxPod(p) \/ T_Drive(p)

SpecTimeline == InitTimeline /\ [][NextTimeline]_vars

\* ===================================================================
\* The rows of the TX counter CSVs across runs
\* ===================================================================
\* The TX pods outlive a run: /tmp/port_rate_stats.csv and
\* /tmp/port_stats.csv may hold the rows an earlier run appended.
InitStale ==
    /\ SideRest
    /\ LoopIdle /\ TimeIdle
    /\ pod_csv \in [Pods -> {{}, {"old"}}]
    /\ sres = [p \in Pods |-> "pending"]
    /\ spulled = [p \in Pods |-> None]
    /\ sidx = 1
    /\ stpc = "drive"

\* run_for_pod: None on too few cores or a missing profile; else
\* validate_and_cleanup_lua removes /tmp/*.csv (the status of the rm is not
\* looked at), pktgen is launched and the samples append rows.
S_Drive(p) ==
    /\ stpc = "drive"
    /\ sres[p] = "pending"
    /\ \E n \in CoreCounts, latency \in BOOLEAN, lua_ok \in BOOLEAN,
          rm_ok \in BOOLEAN, sampled \in BOOLEAN :
         IF TxCoresRefused(n, latency)
         THEN sres' = [sres EXCEPT ![p] = "none"] /\ UNCHANGED pod_csv
         ELSE IF run_for_pod([k \in 1..n |-> k - 1], latency).status = "raise"
         THEN sres' = [sres EXCEPT ![p] = "raised"] /\ UNCHANGED pod_csv
         ELSE IF ~lua_ok
         THEN sres' = [sres EXCEPT ![p] = "none"] /\ UNCHANGED pod_csv
         ELSE /\ sres' = [sres EXCEPT ![p] = "ok"]
              /\ pod_csv' = [pod_csv EXCEPT ![p] =
                               (IF rm_ok THEN {} ELSE @)
                               \cup (IF sampled THEN {"new"} ELSE {})]
    /\ UNCHANGED << spulled, sidx, stpc >>
    /\ UNCHANGED nonStaleVars

\* start_pktgen_on_tx_pods after the pool: the exception of a worker is
\* raised again, else tx_core_list is the results that are not None.
S_Join ==
    /\ stpc = "drive"
    /\ \A p \in Pods : sres[p] # "pending"
    /\ stpc' = IF \E p \in Pods : sres[p] = "raised" THEN "crashed" ELSE "collect"
    /\ UNCHANGED << pod_csv, sres, spulled, sidx >>
    /\ UNCHANGED nonStaleVars

\* The collection loop for Pair i: tx_core_list[i], then kubectl cp of the
\* two CSVs of its TX pod (a missing file makes the copy fail).
S_Collect(i) ==
    /\ stpc = "collect"
    /\ i = sidx
    /\ IF i > Len(FilterOk(sres))
       THEN stpc' = "crashed" /\ UNCHANGED << spulled, sidx >>
       ELSE /\ spulled' = [spulled EXCEPT ![i] = Some(pod_csv[i])]
            /\ sidx' = i + 1
            /\ stpc' = IF i = NPairs THEN "end" ELSE "collect"
    /\ UNCHANGED << pod_csv, sres >>
    /\ UNCHANGED nonStaleVars

NextStale == S_Join \/ \E p \in Pods : S_Drive(p) \/ S_Collect(p)

SpecStale == InitStale /\ [][NextStale]_vars

\* ===================================================================
\* SSHConnectionManager
\* ===================================================================
\* Mutant of G_Acquire: the body of get_connection runs without the lock.
G_Acquire_NoLock(t, h) ==
    /\ gpc[t] = "idle"
    /\ lock' = t
    /\ gpc' = [gpc EXCEPT ![t] = "check"]
    /\ ghost' = [ghost EXCEPT ![t] = h]
    /\ UNCHANGED << connections, closed, sessions, ret >>
    /\ UNCHANGED orchVars

\* get_connection(host): "with self.lock:"
G_Acquire(t, h) ==
    /\ gpc[t] = "idle"
    /\ lock = 0
    /\ lock' = t
    /\ gpc' = [gpc EXCEPT ![t] = "check"]
    /\ ghost' = [ghost EXCEPT ![t] = h]
    /\ UNCHANGED << connections, closed, sessions, ret >>
    /\ UNCHANGED orchVars

\* client = self.connections.get(host); a live client is returned, a dead
\* one is closed and its entry deleted.
G_Check(t) ==
    /\ gpc[t] = "check"
    /\ LET h == ghost[t]
           c == connections[h] IN
         IF c # 0 /\ sessions[c].active
         THEN /\ ret' = [ret EXCEPT ![t] =
                           [id |-> c, stored |-> TRUE, active |-> sessions[c].active]]
              /\ lock' = 0
              /\ gpc' = [gpc EXCEPT ![t] = "idle"]
              /\ UNCHANGED << connections, sessions >>
         ELSE IF c # 0
         THEN /\ sessions' = [sessions EXCEPT ![c].open = FALSE, ![c].active = FALSE]
              /\ connections' = [connections EXCEPT ![h] = 0]
              /\ gpc' = [gpc EXCEPT ![t] = "connect"]
              /\ UNCHANGED << lock, ret >>
         ELSE /\ gpc' = [gpc EXCEPT ![t] = "connect"]
              /\ UNCHANGED << connections, sessions, lock, ret >>
    /\ UNCHANGED << closed, ghost >>
    /\ UNCHANGED orchVars

\* Mutant of G_Connect: an exception of connect leaves the lock held.
G_Connect_KeepsLock(t) ==
    /\ gpc[t] = "connect"
    /\ LET h == ghost[t] IN
       \E ok \in (IF Len(sessions) < MaxSessions THEN BOOLEAN ELSE {FALSE}) :
         IF ok
         THEN /\ sessions' = Append(sessions, [host |-> h, active |-> TRUE, open |-> TRUE])
              /\ connections' = [connections EXCEPT ![h] = Len(sessions) + 1]
              /\ ret' = [ret EXCEPT ![t] =
                           [id |-> Len(sessions) + 1, stored |-> FALSE, active |-> TRUE]]
              /\ lock' = 0
         ELSE /\ ret' = [ret EXCEPT ![t] = NoReturn]
              /\ UNCHANGED << sessions, connections, lock >>
    /\ gpc' = [gpc EXCEPT ![t] = "idle"]
    /\ UNCHANGED << closed, ghost >>
    /\ UNCHANGED orchVars

\* client.connect(...): on success the client is stored and returned; an
\* exception leaves the "with" block (the lock is released) with no entry.
G_Connect(t) ==
    /\ gpc[t] = "connect"
    /\ LET h == ghost[t] IN
       \E ok \in (IF Len(sessions) < MaxSessions THEN BOOLEAN ELSE {FALSE}) :
         IF ok
         THEN /\ sessions' = Append(sessions, [host |-> h, active |-> TRUE, open |-> TRUE])
              /\ connections' = [connections EXCEPT ![h] = Len(sessions) + 1]
              /\ ret' = [ret EXCEPT ![t] =
                           [id |-> Len(sessions) + 1, stored |-> FALSE, active |-> TRUE]]
         ELSE /\ ret' = [ret EXCEPT ![t] = NoReturn]
              /\ UNCHANGED << sessions, connections >>
    /\ lock' = 0
    /\ gpc' = [gpc EXCEPT ![t] = "idle"]
    /\ UNCHANGED << closed, ghost >>
    /\ UNCHANGED orchVars

\* The transport of a connected client dies (network, remote end).
TransportDies(c) ==
    /\ c \in DOMAIN sessions
    /\ sessions[c].active
    /\ sessions' = [sessions EXCEPT ![c].active = FALSE]
    /\ UNCHANGED << connections, lock, closed, gpc, ghost, ret >>
    /\ UNCHANGED orchVars

\* close_all: under the lock, close every stored client, clear the dict.
\* Mutant of PoolCloseAll: the dictionary is not cleared.
PoolCloseAll_NoClear ==
    /\ lock = 0
    /\ sessions' = [c \in DOMAIN sessions |->
                      IF \E h \in Hosts : connections[h] = c
                      THEN [sessions[c] EXCEPT !.open = FALSE, !.active = FALSE]
                      ELSE sessions[c]]
    /\ closed' = TRUE
    /\ UNCHANGED << connections, lock, gpc, ghost, ret >>
    /\ UNCHANGED orchVars

PoolCloseAll ==
    /\ lock = 0
    /\ sessions' = [c \in DOMAIN sessions |->
                      IF \E h \in Hosts : connections[h] = c
                      THEN [sessions[c] EXCEPT !.open = FALSE, !.active = FALSE]
                      ELSE sessions[c]]
    /\ connections' = [h \in Hosts |-> 0]
    /\ closed' = TRUE
    /\ UNCHANGED << lock, gpc, ghost, ret >>
    /\ UNCHANGED orchVars

InitPool ==
    /\ Init
    /\ IsNone(cfg.sample_count) /\ ~cfg.skip_testpmd /\ ~session

NextPool ==
    \/ \E t \in Threads, h \in Hosts : G_Acquire(t, h)
    \/ \E t \in Threads : G_Check(t)
    \/ \E t \in Threads : G_Connect(t)
    \/ \E c \in 1..MaxSessions : TransportDies(c)
    \/ PoolCloseAll

SpecPool == InitPool /\ [][NextPool]_vars

\* ===================================================================
\* Properties
\* ===================================================================
First(h, e) == IF \E k \in DOMAIN h : h[k] = e
               THEN CHOOSE k \in DOMAIN h : h[k] = e /\ \A m \in 1..(k - 1) : h[m] # e
               ELSE 0
FirstIn(h, S) == IF \E k \in DOMAIN h : h[k] \in S
                 THEN CHOOSE k \in DOMAIN h : h[k] \in S /\ \A m \in 1..(k - 1) : h[m] \notin S
                 ELSE 0
LastIn(h, S) == IF \E k \in DOMAIN h : h[k] \in S
                THEN CHOOSE k \in DOMAIN h : h[k] \in S /\ \A m \in (k + 1)..Len(h) : h[m] \notin S
                ELSE 0
Count(h, S) == Cardinality({k \in DOMAIN h : h[k] \in S})
Archives == {"tx.npz", "rx.npz"}
SevenFiles == {"metadata.txt", "warmup.log", "stats.log", "port_rate_stats.csv",
               "port_stats.csv", "tx.npz", "rx.npz"}
RxListed == {rx_core_list[k] : k \in DOMAIN rx_core_list}

\* C1: for every Pair whose artifacts are collected, the events occurred in
\* the order warm-up < receiver start < generator launch < first sample <
\* stop command < final sample < receiver stop < artifact collection.
C1_PairOrdering ==
    \A p \in Pods :
      "collect" \in Events(p) =>
        LET h == hist[p] IN
          /\ 0 < First(h, "warmup")
          /\ First(h, "warmup") < First(h, "rx_start")
          /\ First(h, "rx_start") < First(h, "gen_launch")
          /\ First(h, "gen_launch") < FirstIn(h, SampleEvents)
          /\ FirstIn(h, SampleEvents) < First(h, "stop")
          /\ First(h, "stop") < LastIn(h, SampleEvents)
          /\ LastIn(h, SampleEvents) < First(h, "rx_stop")
          /\ First(h, "rx_stop") < First(h, "collect")

\* C1, the case the ordering is about: a Pair was collected after its own
\* receiver and generator ran.
C1_OrderedPairCollected ==
    \E p \in Pods : /\ "collect" \in Events(p)
                    /\ "warmup" \in Events(p)
                    /\ "final_sample" \in Events(p)

\* C2: when main_start_generator has ended and some generator driver
\* returned None, the Pair of that driver has no archive, and every Pair
\* whose driver succeeded (and whose pods hold the logs and CSV rows of the
\* run) has its seven files.
C2_FailedDriverLeavesNoArchive ==
    (pc \in {"done", "crashed"} /\ \E p \in Pods : results[p] = "none") =>
      \A p \in Pods :
        /\ results[p] = "none" => artifacts[p] \cap Archives = {}
        /\ (/\ results[p] = "ok"
            /\ {"tx.csv", "stats.log", "warmup.log"} \subseteq podFiles[p]
            /\ Events(p) \cap {"tx_empty", "rx_empty"} = {})
             => SevenFiles \subseteq artifacts[p]

\* C3: insufficient cores never abort the run (no RuntimeError out of
\* start_dpdk_testpmd), and when an RX workload was skipped for having
\* fewer than 2 cores every other Pair whose receiver and generator ran
\* reaches artifact collection.
C3_InsufficientCoresSkipOnlyThatPair ==
    /\ ~(pc = "crashed" /\ pool = "open" /\ \A p \in Pods : wpc[p] = "idle")
    /\ (/\ pc \in {"done", "crashed"}
        /\ ~cfg.skip_testpmd
        /\ \A p \in Pods : results[p] # "pending"
        /\ \E p \in Pods : p \notin RxListed)
         => \A q \in RxListed : results[q] = "ok" => "collect" \in Events(q)

\* C4: when the process exits after SIGINT, no started receiver is left
\* unsignalled, no transient CSV is left under /tmp/ of a TX workload, no
\* generator is left, and no started sampler thread is still running.
C4_SigintCleanup ==
    pc = "exit130" =>
      /\ \A p \in Pods : "rx_start" \in Events(p) => "rx_stop" \in Events(p)
      /\ \A p \in Pods : "tx.csv" \notin podFiles[p]
      /\ \A p \in Pods : ~pktgen[p]
      /\ \A s \in Samplers : spc[s] # "running"

\* C5: once SIGINT was raised no archive is written; and when it was raised
\* after the receivers were started and before any generator was launched,
\* the process exits with no archive written, no tmux session and no
\* generator process in any TX workload.
C5_AbortLeavesNothing ==
    [][ /\ sigint # "no" =>
             \A p \in Pods : artifacts'[p] \cap Archives = artifacts[p] \cap Archives
        /\ (pc' = "exit130" /\ sigint' = "window") =>
             /\ \A p \in Pods : artifacts'[p] \cap Archives = {}
             /\ ~session'
             /\ \A p \in Pods : ~pktgen'[p]
      ]_vars

\* C5, its case: SIGINT came in the window, a worker launched its generator
\* afterwards, and the process has exited.
C5_AbortedInWindow ==
    /\ pc = "exit130"
    /\ sigint = "window"
    /\ \E p \in Pods : "gen_launch" \in Events(p)

\* C6: after the abort signal no generator driver makes a further
\* sample_pktgen_stats_via_socat call.
C6_NoSamplingAfterAbort ==
    [][ sigint # "no" =>
          \A p \in Pods : Count(hist'[p], SampleEvents) = Count(hist[p], SampleEvents)
      ]_vars

\* N of the claim: sample_count if set, else floor(duration / sample_interval)
ClaimedN(c) == IF IsNone(c.sample_count)
               THEN c.duration \div c.sample_interval
               ELSE Val(c.sample_count)

\* C7: a driver makes at most N loop samples, none after a failed one, then
\* one sample, one stop and one final sample in that order: at most N + 2
\* sample calls.
C7_SamplingBudget ==
    \A p \in Pods :
      LET h == hist[p] IN
        /\ Count(h, {"loop_ok", "loop_fail"}) <= ClaimedN(cfg)
        /\ Count(h, SampleEvents) <= ClaimedN(cfg) + 2
        /\ Count(h, {"loop_fail"}) <= 1
        /\ First(h, "loop_fail") > 0 => LastIn(h, {"loop_ok", "loop_fail"}) = First(h, "loop_fail")
        /\ results[p] = "ok" =>
             /\ Count(h, {"last_sample"}) = 1 /\ Count(h, {"stop"}) = 1
             /\ Count(h, {"final_sample"}) = 1
             /\ LastIn(h, {"loop_ok", "loop_fail"}) < First(h, "last_sample")
             /\ First(h, "last_sample") < First(h, "stop")
             /\ First(h, "stop") < First(h, "final_sample")

\* C9: on every exit after the pool was created close_all has been called,
\* and the pool is never closed while a sampler thread is still running.
C9_PoolClosedAtExit ==
    /\ (pc \in Ended /\ pool # "none") => pool = "closed"
    /\ pool = "closed" => \A s \in Samplers : spc[s] # "running"

\* C10: the duration given to each sampler is at least the time any driver
\* spends between launch and stop command plus the 30 s grace, and at least
\* one sampling interval.
C10_SamplerOutlastsDrivers ==
    (\E s \in Samplers : spc[s] # "none") =>
      /\ vf_duration >= cfg.sample_interval
      /\ \A p \in Pods : "stop" \in Events(p) => vf_duration >= tx_elapsed[p] + Grace

OpenSessions(h) == {c \in DOMAIN sessions : sessions[c].host = h /\ sessions[c].open}

\* C8: under any interleaving of get_connection calls there is at most one
\* open session per host and it is the stored one (concurrent calls that
\* find no live session make one connection, a replaced session is closed
\* first), and a stored session is returned only if it was seen alive.
C8_OneLiveSessionPerHost ==
    /\ \A h \in Hosts : Cardinality(OpenSessions(h)) <= 1
    /\ \A h \in Hosts : \A c \in OpenSessions(h) : connections[h] = c
    /\ \A h \in Hosts : connections[h] # 0 => connections[h] \in OpenSessions(h)
    /\ \A t \in Threads : ret[t].stored => ret[t].active

\* C8, its case: two callers hold the same session of a host, which is the
\* replacement of a session found dead.
C8_SharedReplacement ==
    \E t1, t2 \in Threads, c \in DOMAIN sessions :
      /\ t1 # t2
      /\ ret[t1].id = ret[t2].id /\ ret[t1].id # 0
      /\ connections[sessions[c].host] = ret[t1].id
      /\ ~sessions[c].open /\ c # ret[t1].id
      /\ ~closed

\* No sampler, pool, receiver, generator driver or pod file exists yet.
NothingStarted ==
    /\ pool = "none"
    /\ \A s \in Samplers : spc[s] = "none"
    /\ \A p \in Pods : hist[p] = <<>> /\ wpc[p] = "idle" /\ podFiles[p] = {}
    /\ ~session

\* C11: when the numbers of tx and rx pods differ, or one of them is zero,
\* the run never gets past the topology step: no distribution, sampler,
\* receiver or generator is started.
C11_TopologyMismatchFailsEarly ==
    (tx_n # rx_n \/ tx_n = 0 \/ rx_n = 0) =>
      /\ pc \in {"validate", "invalid", "resolve", "mismatch"}
      /\ NothingStarted

\* C11, its case: both groups are non-empty, differ in size, and the run
\* has failed.
C11_MismatchRefused ==
    /\ pc = "mismatch"
    /\ tx_n > 0 /\ rx_n > 0 /\ tx_n # rx_n

PowersOfTwo == {2 ^ k : k \in 0..12}

\* C16: with sample_interval >= duration, txd or rxd not a power of two,
\* control-port outside 1024..65535, or a core count given and < 1, no
\* cluster action is performed; and is_power_of_two(n) is true exactly for
\* the powers of two.
C16_InvalidOptionsRefused ==
    /\ (\/ cfg.sample_interval >= cfg.duration
        \/ opts.txd \notin PowersOfTwo
        \/ opts.rxd \notin PowersOfTwo
        \/ opts.control_port \notin 1024..65535
        \/ (~IsNone(opts.tx_num_core) /\ Val(opts.tx_num_core) < 1)
        \/ (~IsNone(opts.rx_num_core) /\ Val(opts.rx_num_core) < 1))
         => (pc \in {"validate", "invalid"} /\ NothingStarted)
    /\ is_power_of_two(opts.txd) <=> opts.txd \in PowersOfTwo
    /\ is_power_of_two(opts.rxd) <=> opts.rxd \in PowersOfTwo

\* C16, its case: txd = 6 is the only refused option, and the process has
\* ended at the validation.
C16_RefusedForTxd ==
    /\ pc = "invalid"
    /\ opts.txd = 6
    /\ ArgsAccepted(cfg, [opts EXCEPT !.txd = 4])

\* C17: the exit code is 0 after a completed run, 130 after SIGINT, 1 when
\* the validation fails and 2 when the tx and rx pod counts differ.
C17_ExitCodes ==
    /\ pc = "done" => ExitCode = 0
    /\ pc = "exit130" => ExitCode = 130
    /\ pc = "invalid" => ExitCode = 1
    /\ (pc = "mismatch" /\ tx_n # rx_n) => ExitCode = 2

\* C12: when main_start_generator has completed normally, every Pair
\* directory it created holds exactly the seven files.
C12_SevenFilesPerPair ==
    pc = "done" => \A p \in Pods : artifacts[p] # {} => artifacts[p] = SevenFiles

\* C14: a receiver whose health check failed after the launch has no
\* artifact written for its Pair.
C14_UnhealthyReceiverNoArtifact ==
    \A p \in Pods : "rx_unhealthy" \in Events(p) => artifacts[p] = {}

\* The collection loop has ended in IndexError (the only exception raised
\* after stop_testpmd_on_rx_pods).
CrashedInCollection == pc = "crashed" /\ \E p \in Pods : "rx_stop" \in Events(p)

\* C15: a side whose required series are not all non-empty gets no archive,
\* and the controller, unless interrupted, goes on and does not fail.
C15_EmptySeriesSuppressed ==
    /\ \A p \in Pods : "tx_empty" \in Events(p) => "tx.npz" \notin artifacts[p]
    /\ \A p \in Pods : "rx_empty" \in Events(p) => "rx.npz" \notin artifacts[p]
    /\ (\E p \in Pods : Events(p) \cap {"tx_empty", "rx_empty"} # {})
         => ~CrashedInCollection

\* C20: with skip-copy nothing is transferred into a workload; with
\* skip-testpmd no receiver is launched and the rest of the run (generators,
\* collection of every Pair, join, close) does not fail.
C20_SkipFlags ==
    /\ cfg.skip_copy => \A p \in Pods : "flows.tar" \notin podFiles[p]
    /\ cfg.skip_testpmd => \A p \in Pods : "rx_start" \notin Events(p)
    /\ cfg.skip_testpmd => ~CrashedInCollection

RequiredTx == {"pkts_tx", "port_opackets", "port_obytes"}
RequiredRx == {"rx_pps", "rx_packets", "rx_bytes"}

\* C13: in every archive written, each required series of its side has at
\* least one entry and the three have the same length.
C13_RequiredSeriesAligned ==
    ~IsNone(npz) =>
      LET a == Val(npz)
          req == IF "rx_pps" \in DOMAIN a THEN RequiredRx ELSE RequiredTx IN
        /\ \A k \in req : a[k] >= 1
        /\ \A k1, k2 \in req : a[k1] = a[k2]

\* C13, its case: an archive was written.
C13_ArchiveWritten == apc = "saved" /\ ~IsNone(npz)

\* validate_npz was run on a file of a determinable side.
Validated == call.command = "validate_npz" /\ ~IsNone(out.status)
SideKeys(f) ==
    (IF f.is_rx THEN RequiredRx ELSE {}) \cup (IF f.is_tx THEN RequiredTx ELSE {})
SchemaAccepts(f, min_samples) ==
    /\ f.readable
    /\ f.is_rx \/ f.is_tx
    /\ \A k \in SideKeys(f) : k \in DOMAIN f.data /\ f.data[k] >= min_samples

\* C19: check_npz_validity accepts an archive exactly when every required
\* series of its side is present with at least min_samples entries, and
\* validate_npz exits 0 when it is accepted and 1 otherwise.
C19_ValidateNpz ==
    Validated =>
      /\ out.is_valid <=> SchemaAccepts(call.file, call.min_samples)
      /\ Val(out.status) = IF out.is_valid THEN 0 ELSE 1

\* What sanity reported: the experiments shown valid with every archive
\* accepted.
ReportedValid(o) == o.valid \ o.bad_npz
NothingLeft(e) == ~e.aux /\ \A d \in PairDirs : e.pairs[d] = AbsentDir

\* C18: a sanity --purge run leaves exactly the experiments it reported
\* valid, whole, and nothing of any other experiment; on a tree whose
\* experiments are all valid it removes nothing.
C18_PurgeLeavesValid ==
    [][(call'.command = "sanity" /\ call'.purge /\ Val(out'.status) = 0) =>
         /\ \A x \in ExpIds :
              IF x \in ReportedValid(out')
              THEN tree'[x] = tree[x]
              ELSE NothingLeft(tree'[x])
         /\ (\A x \in ExpIds : ~NothingLeft(tree[x]) => x \in ReportedValid(out'))
               => tree' = tree]_vars

\* C21: a caller inside an outward call leaves it, whether or not the
\* remote end ever answers.
C21_CallsBounded ==
    \A c \in Callers : (cstate[c] = "waiting") ~> (cstate[c] = "idle")

\* What a reader of a file name takes for its timestamp and experiment id:
\* the last part and the first part.
TimestampToken(name) == name[Len(name)]
ExpidPrefix(name) == name[1]
BothArchives(p) == ~IsNone(names[p].tx) /\ ~IsNone(names[p].rx)

\* C22: the TX archive and the RX archive of a pair carry the same
\* timestamp token and the same experiment id prefix in their names.
C22_SameTimestampAndExpid ==
    \A p \in Pods :
       BothArchives(p) =>
         /\ TimestampToken(Val(names[p].tx)) = TimestampToken(Val(names[p].rx))
         /\ ExpidPrefix(Val(names[p].tx)) = ExpidPrefix(Val(names[p].rx))
         /\ ExpidPrefix(Val(names[p].tx)) = Digits(Val(stamp).expid)

\* C22, its case: both archives of a pair were written, seconds after the
\* run was stamped.
C22_BothWrittenLater ==
    \E p \in Pods : BothArchives(p) /\ clock > Val(stamp).timestamp

Stored(c) == \E h \in Hosts : connections[h] = c
PoolEmpty(conn) == \A h \in Hosts : conn[h] = 0

\* C23: close_all closes every stored session and leaves the pool empty;
\* on an empty pool it closes nothing further and leaves the pool empty.
C23_CloseAllIdempotent ==
    [][PoolCloseAll =>
         /\ \A c \in DOMAIN sessions : Stored(c) => ~sessions'[c].open
         /\ PoolEmpty(connections')
         /\ PoolEmpty(connections) => sessions' = sessions]_vars

\* C23, its case: sessions were connected and close_all closed the last
\* of them.
C23_ClosedAfterUse ==
    /\ closed
    /\ PoolEmpty(connections)
    /\ Len(sessions) >= 2
    /\ \A c \in DOMAIN sessions : ~sessions[c].open

\* run_for_pod has decided for a pod with core list C.
TxDone(latency) ==
    core_in.side = "tx" /\ core_in.latency = latency /\ ~IsNone(core_out)
NCores == Len(core_in.numa_cores)
HalfUsable == (NCores - 1) \div 2
CoresAt(from, to) == SeqSet(SubSeq(core_in.numa_cores, from + 1, to))
Launched == Val(core_out).status = "launch"
Port(k) == Val(core_out).port_to_core[k]

\* C24: unidirectional, more than two cores: a generator is launched with
\* main = C[0], tx = C[1..1+h], rx = C[1+h..1+2h], h = floor((|C|-1)/2),
\* both non-empty.
C24_UnidirectionalSplit ==
    (TxDone(FALSE) /\ NCores > 2) =>
      /\ Launched
      /\ Val(core_out).main_core = core_in.numa_cores[1]
      /\ Port(1).tx = CoresAt(1, 1 + HalfUsable)
      /\ Port(1).rx = CoresAt(1 + HalfUsable, 1 + 2 * HalfUsable)
      /\ Port(1).tx # {} /\ Port(1).rx # {}

\* C25: unidirectional, exactly two cores: a generator is launched with
\* main the first core and the second core shared by tx and rx.
C25_TwoCoresShared ==
    (TxDone(FALSE) /\ NCores = 2) =>
      /\ Launched
      /\ Val(core_out).main_core = core_in.numa_cores[1]
      /\ Port(1).tx = {core_in.numa_cores[2]}
      /\ Port(1).rx = {core_in.numa_cores[2]}

\* C26: more than two cores, a launch: main is in neither set of the
\* mapping, tx and rx are disjoint, and every core named is an allowed one.
C26_MappingWithinAllowed ==
    (core_in.side = "tx" /\ ~IsNone(core_out) /\ NCores > 2 /\ Launched) =>
      \A k \in DOMAIN Val(core_out).port_to_core :
         /\ Val(core_out).main_core \notin Port(k).tx \cup Port(k).rx
         /\ Port(k).tx \cap Port(k).rx = {}
         /\ Port(k).tx \cup Port(k).rx \subseteq SeqSet(core_in.numa_cores)

\* C27: latency mode: fewer than 5 cores are refused; otherwise the four
\* core sets are non-empty, pairwise disjoint and without the main core.
C27_LatencySplit ==
    TxDone(TRUE) =>
      IF NCores < 5
      THEN Val(core_out).status = "none"
      ELSE /\ Launched
           /\ Len(Val(core_out).port_to_core) = 2
           /\ LET sets == << Port(1).tx, Port(1).rx, Port(2).tx, Port(2).rx >> IN
                /\ \A a \in 1..4 : sets[a] # {}
                /\ \A a \in 1..4 : Val(core_out).main_core \notin sets[a]
                /\ \A a, b \in 1..4 : a # b => sets[a] \cap sets[b] = {}
                /\ \A a \in 1..4 : sets[a] \subseteq SeqSet(core_in.numa_cores)

\* C27, its case: a latency launch on more than 5 cores, out of text order.
C27_LatencyLaunch ==
    TxDone(TRUE) /\ NCores > 6 /\ Launched /\ core_in.numa_cores[NCores] >= 10

\* C28: an RX pod with core list C: main = C[0] and rx = C[1..1+N], or all
\* cores after main without N; with |C| < 2 or |C| < N + 1 nothing is
\* launched.
C28_RxCores ==
    (core_in.side = "rx" /\ ~IsNone(core_out)) =>
      LET N == core_in.rx_num_core IN
        IF NCores < 2 \/ (~IsNone(N) /\ NCores < Val(N) + 1)
        THEN Val(core_out).status # "launch"
        ELSE /\ Launched
             /\ Val(core_out).main_core = core_in.numa_cores[1]
             /\ Val(core_out).rx_cores =
                  IF IsNone(N) THEN Tail(core_in.numa_cores)
                  ELSE SubSeq(core_in.numa_cores, 2, 1 + Val(N))

\* C28, its cases: N cores taken of more, and a pod refused for N.
C28_RxClamped ==
    /\ core_in.side = "rx" /\ ~IsNone(core_out) /\ Launched
    /\ ~IsNone(core_in.rx_num_core)
    /\ NCores > Val(core_in.rx_num_core) + 1

\* C29: in every pair of a started run the RX pod carries the suffix of
\* the TX pod (rx<k> with tx<k>); pods that cannot be paired this way
\* start no run.
C29_PairsAligned ==
    (~IsNone(pairing) /\ Val(pairing).status = "started") =>
      \A i \in DOMAIN Val(pairing).pairs :
         Val(pairing).pairs[i][1] = Val(pairing).pairs[i][2]

\* C30: start_esxi_collector starts exactly one sampling thread for every
\* distinct hypervisor that a TX or RX node of the run is mapped to, warns
\* about every node of the run without a mapping, and the run proceeds to
\* its receivers and generators -- also when no node has a mapping, with
\* zero threads.
RunNodes == SeqSet(nodes.tx_nodes \o nodes.rx_nodes)

ThreadsFor(h) ==
    Cardinality({ i \in DOMAIN Val(monitors).threads : Val(monitors).threads[i] = h })

C30_OneSamplerPerHypervisor ==
    ~IsNone(monitors) =>
      /\ Val(monitors).status = "proceed"
      /\ \A h \in Hosts :
            ThreadsFor(h) = IF \E w \in RunNodes : nodes.esxi_map[w] = h THEN 1 ELSE 0
      /\ Val(monitors).warned = { w \in RunNodes : nodes.esxi_map[w] = NoLabel }

\* C31: a failed remote command never ends the hypervisor sampling task
\* early and never raises out of it: a task that returned has sampled
\* until its duration had elapsed, each failure was only printed.
SamplerReturned == loop_in.task = "sampler" /\ lpc = "done"

C31_SamplerSurvivesShellFailure ==
    (SamplerReturned /\ logged > 0) => lnow >= loop_in.duration

\* C32: the CSV of a hypervisor starts with one header row, the keys of the
\* first non-empty sample, and holds after it one data row for every
\* non-empty sample, each with exactly the fields of the header, whatever
\* counters the later samples name.
C32_OneHeaderThenRows ==
    (loop_in.task = "sampler" /\ ~IsNone(csvf)) =>
      LET f == Val(csvf) IN
        /\ Len(f) = IF taken = << >> THEN 0 ELSE 1 + Len(taken)
        /\ \A i \in DOMAIN f :
              /\ f[i].kind = IF i = 1 THEN "header" ELSE "data"
              /\ f[i].fields = taken[1]

\* C33: every RX workload whose forwarder was launched had its warm-up run
\* to the end first, and a warm-up that ended - with status 0, 124 or any
\* other - is followed by the launch of the forwarder, never by the end of
\* the experiment.
C33_WarmupThenLaunchAlways ==
    \A p \in Pods :
      /\ ~IsNone(rxl[p]) => ~IsNone(warm[p])
      /\ ~IsNone(warm[p]) => ~IsNone(rxl[p])

\* C33, its case: a forwarder launched after a warm-up that failed.
C33_LaunchedAfterFailedWarmup ==
    \E p \in Pods : /\ ~IsNone(warm[p]) /\ Val(warm[p]) = 1
                    /\ ~IsNone(rxl[p])

\* C34: the forwarder runs under a timeout of duration + 2 * samples + 60
\* seconds and the generator under duration + 2 * samples + 24, samples
\* being the iterations of the sampling loop of the run (sample_count when
\* set, else duration \div sample_interval).
C34_TimeoutsFollowSamples ==
    \A p \in Pods :
      /\ ~IsNone(rxl[p]) =>
           Val(rxl[p]).timeout = tl_in.duration + 2 * SampleCount(tl_in) + 60
      /\ ~IsNone(genl[p]) =>
           Val(genl[p]).timeout = tl_in.duration + 2 * SampleCount(tl_in) + 24

\* C38: for every Pair whose generator was launched, the stop command is
\* sent before the timeout of the generator runs out, and before the
\* timeout of its receiver runs out.
C38_TimeoutsOutlastStop ==
    \A p \in Pods :
      ~IsNone(genl[p]) =>
        /\ Val(genl[p]).stop <= Val(genl[p]).at + Val(genl[p]).timeout
        /\ ~IsNone(rxl[p]) =>
             Val(genl[p]).stop <= Val(rxl[p]).at + Val(rxl[p]).timeout

\* C35: a sampling loop (of the generator driver or of the hypervisor
\* sampler) never has two sampling calls in progress, and has ended no
\* later than its planned end (its duration after its start) plus the time
\* of one sampling call, because it skips the ticks a slow call missed.
C35_LoopEndsOnTime ==
    /\ inflight <= 1
    /\ (loop_in.task \in {"sampler", "driver"} /\ lpc = "done") =>
         lnow <= loop_in.duration + lat_max

\* C36: sanity reports as valid every Experiment whose Pair directories
\* each hold the seven kinds of file, however many Pairs the other
\* Experiments of the tree have.
PairsOfExp(x) == {d \in PairDirs : tree[x].pairs[d].state = "dir"}

CompleteExp(x) ==
    /\ PairsOfExp(x) # {}
    /\ \A d \in PairsOfExp(x) : required_files \subseteq tree[x].pairs[d].files

C36_CompleteExperimentValid ==
    (call.command = "sanity" /\ ~call.purge /\ out.status = Some(0)) =>
      \A x \in ExpIds : CompleteExp(x) => x \in out.valid

\* C37: the core assignments in the names of a collected Pair's archives
\* are those of its own TX and RX workloads, also when an earlier workload
\* was skipped or its driver returned nothing.
C37_OwnCoreAssignment ==
    \A i \in Pods :
      "collect" \in Events(i) =>
        /\ tx_core_list[i] = i
        /\ rx_core_list[i] = i

\* C39: the TX counter CSVs pulled into a Pair's directory hold only rows
\* appended during the current run, never rows an earlier run left in the
\* TX workload - also for a Pair whose driver returned before the launch.
C39_NoStaleRows ==
    \A i \in Pods : ~IsNone(spulled[i]) => "old" \notin Val(spulled[i])

\* C40: when connect fails inside get_connection the pool holds no entry
\* and no open session for that host, the entries of the other hosts are
\* unchanged, the lock is free and the caller is back outside
\* get_connection, so that a later call for any host can acquire the lock.
ConnectFailed(t) ==
    /\ gpc[t] = "connect" /\ gpc'[t] = "idle"
    /\ ret'[t].id = 0

C40_ConnectFailureLeavesPoolConsistent ==
    [][\A t \in Threads :
         ConnectFailed(t) =>
           /\ connections'[ghost[t]] = 0
           /\ \A c \in DOMAIN sessions' :
                 sessions'[c].host = ghost[t] => ~sessions'[c].open
           /\ \A h \in Hosts \ {ghost[t]} : connections'[h] = connections[h]
           /\ lock' = 0]_vars

\* C40, its case: the connect that was to replace a dead session of a host
\* has failed (its session is closed, no entry is left, nobody is inside
\* get_connection) while another host keeps its session.
C40_FailedReplacement ==
    \E h, h2 \in Hosts, c \in DOMAIN sessions :
      /\ ~closed /\ lock = 0
      /\ \A t \in Threads : gpc[t] = "idle"
      /\ sessions[c].host = h /\ ~sessions[c].open
      /\ connections[h] = 0
      /\ h2 # h /\ connections[h2] # 0 /\ sessions[connections[h2]].open

====
